---- MODULE Spec2Model ----
(***************************************************************************)
(* Model of the transaction shepherd (src/src/tx_sheppard.rs) and of the   *)
(* blockhash cache it drives (src/src/blockhash_cache.rs).                 *)
(*                                                                         *)
(* Time is counted in ticks of 100 ms.  An Instant is kept as the number   *)
(* of ticks elapsed since it (saturating at the largest value the code     *)
(* compares it against), a sleep as the number of ticks left.  Each timer  *)
(* advances on its own, straight to the moment the code waits for: RPC     *)
(* calls take any time, so no order between the timers is assumed.         *)
(***************************************************************************)
EXTENDS Integers, Naturals, Sequences, FiniteSets, TLC

VARIABLES
    pc,                 \* position of run_impl
    tx_builder_count,   \* tx_builders.len()
    retry_count,        \* the retry_count argument of run_impl
    execution_status,   \* Vec<TargetExecutionStatus>, indexed 0..tx_builder_count-1
    sending_txs,        \* FuturesUnordered of send futures
    in_status_check,    \* HashSet<usize>
    status_task,        \* the pending future made by start_status_check
    last_status_check,  \* ticks since the Instant last_status_check (negative: in the future)
    succeeded_count,
    failed_count,
    shutdown,           \* the CancellationToken is cancelled
    last_hash,          \* BlockhashCache::last_hash
    refresh_pc,         \* position of run_refresh_loop
    loop_start,         \* ticks since loop_start of run_refresh_loop
    attempts,           \* per index: number of send futures created by send_one_tx
    last_signature,     \* per index: signatures returned by successful sends, latest last
    printed,            \* lines printed by run_impl after the loop
    attempt_age,        \* ticks since the pending refresh request of the loop was issued
    since_refresh,      \* ticks since the last successful refresh request was issued (-1: none)
    refresh_gap,        \* ticks between the issue of the last two successful requests (-1: none)
    refresh_seen,       \* the last call of refresh by the loop: its inputs and its result
    nas_pc,             \* position of the task running NodeAddressService::run
    recent_slots,       \* RecentLeaderSlots: the VecDeque<Slot>, oldest first
    slot_call,          \* the last call made on RecentLeaderSlots, with its result
    leader_tpu_cache,   \* LeaderTpuCache, << >> before NodeAddressService::init
    notifications,      \* the task of the service has a slot update subscription
    last_cluster_refresh, \* seconds since the Instant last_cluster_refresh
    sleep_ms,           \* sleep_ms of NodeAddressService::run
    cache_update_info,  \* the LeaderTpuCacheUpdateInfo of the iteration, << >> if none
    leaders_requested,  \* the limit of the last get_slot_leaders request
    leaders_from,       \* the start slot of the last get_slot_leaders request
    teardown,           \* what the task of the service has done on cancellation, in order
    cluster_refreshed,  \* update_all has stored the answer of a get_cluster_nodes
    tpu_call,           \* the last call of get_tpu_for_next_in_schedule
    bench_args,         \* the Benchmark1Args of the run, << >> if none
    bench_now,          \* ticks since benchmark_end_timer was created
    benchmark_end_timer, \* benchmark_end_timer.is_elapsed()
    publishers_shutdown, \* the token publishers_shutdown is cancelled
    publishers,         \* per publisher: the state of its run_publisher future
    update_results,     \* the results held by the mpsc channel, by kind
    stats,              \* RunStats
    results_sent,       \* number of results the publishers have sent to the channel
    stats_line,         \* the last line print_stats printed, << >> if none
    status_pc,          \* position of the future made by start_status_check
    status_rpcs,        \* getSignatureStatuses requests sent and not yet answered
    rpc_clock,          \* ticks since the last getSignatureStatuses request was sent (-1: none)
    rpc_gap             \* ticks between the sending of the last two requests (-1: none)

vars == <<pc, tx_builder_count, retry_count, execution_status, sending_txs,
          in_status_check, status_task, last_status_check, succeeded_count,
          failed_count, shutdown, last_hash, refresh_pc, loop_start, attempts,
          last_signature, printed, attempt_age, since_refresh, refresh_gap,
          refresh_seen, nas_pc, recent_slots, slot_call, leader_tpu_cache,
          notifications, last_cluster_refresh, sleep_ms, cache_update_info,
          leaders_requested, leaders_from, teardown, cluster_refreshed, tpu_call, bench_args, bench_now,
          benchmark_end_timer, publishers_shutdown, publishers, update_results,
          stats, results_sent, stats_line, status_pc, status_rpcs, rpc_clock,
          rpc_gap>>

\* What is observed of the status task of run_impl when time is counted.
poll_vars == <<status_pc, status_rpcs, rpc_clock, rpc_gap>>

\* The state of the transaction shepherd alone.
shepherd_vars == <<tx_builder_count, retry_count, execution_status, sending_txs,
                   in_status_check, status_task, last_status_check, succeeded_count,
                   failed_count, attempts, last_signature, printed, poll_vars>>

\* The state of the price store benchmark.
bench_vars == <<bench_args, bench_now, benchmark_end_timer, publishers_shutdown,
                publishers, update_results, stats, results_sent, stats_line>>

\* What the runners of src/src/node_address_service/runner.rs observe of the
\* refresh loop.
run_vars == <<attempt_age, since_refresh, refresh_gap, refresh_seen>>

\* The state of the NodeAddressService.
cache_vars == <<leader_tpu_cache, notifications, last_cluster_refresh, sleep_ms,
                cache_update_info, leaders_requested, leaders_from, teardown, cluster_refreshed, tpu_call>>

nas_vars == <<nas_pc, recent_slots, slot_call, cache_vars>>

(***************************************************************************)
(* Bounds of the model.                                                    *)
(***************************************************************************)
MaxTx == 2
MaxRetry == 1
MaxHash == 2
MaxConfirmations == 0
MaxElapsed == 8
FarSlot == 50
MaxSlotUpdates == 2
SlotBits == 7
MaxWideSlots == 3
MaxFanoutSlots == 2

(***************************************************************************)
(* Program constants, durations in ticks of 100 ms.                        *)
(***************************************************************************)
MAX_ABSENT_SLOTS == 5
SlotTicks == 4
AbsentDeadline == MAX_ABSENT_SLOTS * SlotTicks
StatusCheckPeriod == 5
rpc_failure_retry_delay == 4
status_failure_retry_delay == 3 * 4
min_loop_duration == SlotTicks
MAX_LOCKOUT_HISTORY == 31
MAX_CONFIRMATIONS == MAX_LOCKOUT_HISTORY + 1

ZeroHash == 0
Hashes == 1..MaxHash
RpcErrors == {"rpc error"}
TransactionErrors == {"transaction error"}
AbsentError == "Transaction not present in the chain even after 5 slots"

Min(a, b) == IF a < b THEN a ELSE b
Max(a, b) == IF a > b THEN a ELSE b

Idx == 0..(tx_builder_count - 1)

(***************************************************************************)
(* TargetExecutionStatus and its methods.  Every method returns the new    *)
(* value of self, its result, and whether it panicked.                     *)
(***************************************************************************)
Sending(rc) == [tag |-> "Sending", retry_count |-> rc]
WaitingConfirmation(elapsed, rc, sig, conf) ==
    [tag |-> "WaitingConfirmation", wait_start |-> elapsed, retry_count |-> rc,
     signature |-> sig, confirmations |-> conf]
Success == [tag |-> "Success"]
Failed(error) == [tag |-> "Failed", error |-> error]

None == << >>
Some(v) == <<v>>

\* send_success that spends a retry.
send_success_spends_retry(self, signature) ==
    IF self.tag = "Sending"
    THEN [panic |-> FALSE,
          self |-> WaitingConfirmation(0, Max(0, self.retry_count - 1), signature, None)]
    ELSE [panic |-> TRUE, self |-> self]

send_success(self, signature) ==
    IF self.tag = "Sending"
    THEN [panic |-> FALSE,
          self |-> WaitingConfirmation(0, self.retry_count, signature, None)]
    ELSE [panic |-> TRUE, self |-> self]

\* send_failed with the retry counter left as it is.
send_failed_no_decrement(self, error) ==
    IF self.tag = "Sending"
    THEN IF self.retry_count > 0
         THEN [panic |-> FALSE, self |-> Sending(self.retry_count), res |-> TRUE]
         ELSE [panic |-> FALSE, self |-> Failed(error), res |-> FALSE]
    ELSE [panic |-> TRUE, self |-> self, res |-> FALSE]

send_failed(self, error) ==
    IF self.tag = "Sending"
    THEN IF self.retry_count > 0
         THEN [panic |-> FALSE, self |-> Sending(self.retry_count - 1), res |-> TRUE]
         ELSE [panic |-> FALSE, self |-> Failed(error), res |-> FALSE]
    ELSE [panic |-> TRUE, self |-> self, res |-> FALSE]

signature_for_status_check(self) ==
    IF self.tag = "WaitingConfirmation"
    THEN [panic |-> FALSE, res |-> self.signature]
    ELSE [panic |-> TRUE, res |-> None]

status_success(self) ==
    IF self.tag = "WaitingConfirmation"
    THEN [panic |-> FALSE, self |-> Success]
    ELSE [panic |-> TRUE, self |-> self]

\* status_absent with the retry test off by one: retry_count >= 0.
status_absent_retries_at_zero(self) ==
    IF self.tag = "WaitingConfirmation"
    THEN IF self.wait_start < AbsentDeadline
         THEN [panic |-> FALSE, self |-> self, res |-> "WaitMore"]
         ELSE [panic |-> FALSE, self |-> Sending(Max(0, self.retry_count - 1)),
               res |-> "Retry"]
    ELSE [panic |-> TRUE, self |-> self, res |-> "WaitMore"]

\* status_absent that never looks at the deadline.
status_absent_no_deadline(self) ==
    IF self.tag = "WaitingConfirmation"
    THEN [panic |-> FALSE, self |-> self, res |-> "WaitMore"]
    ELSE [panic |-> TRUE, self |-> self, res |-> "WaitMore"]

\* status_absent that gives up at the deadline whatever retries are left.
status_absent_fails_with_retries_left(self) ==
    IF self.tag = "WaitingConfirmation"
    THEN IF self.wait_start < AbsentDeadline
         THEN [panic |-> FALSE, self |-> self, res |-> "WaitMore"]
         ELSE [panic |-> FALSE, self |-> Failed(AbsentError), res |-> "Failed"]
    ELSE [panic |-> TRUE, self |-> self, res |-> "WaitMore"]

status_absent(self) ==
    IF self.tag = "WaitingConfirmation"
    THEN IF self.wait_start < AbsentDeadline
         THEN [panic |-> FALSE, self |-> self, res |-> "WaitMore"]
         ELSE IF self.retry_count > 0
              THEN [panic |-> FALSE, self |-> Sending(self.retry_count - 1),
                    res |-> "Retry"]
              ELSE [panic |-> FALSE, self |-> Failed(AbsentError), res |-> "Failed"]
    ELSE [panic |-> TRUE, self |-> self, res |-> "WaitMore"]

status_pending(self, new_confirmations) ==
    IF self.tag = "WaitingConfirmation"
    THEN [panic |-> FALSE,
          self |-> [self EXCEPT !.confirmations = Some(new_confirmations)]]
    ELSE [panic |-> TRUE, self |-> self]

\* status_failed that asks for no retry after it has gone back to Sending.
status_failed_no_retry(self, error) ==
    IF self.tag = "WaitingConfirmation"
    THEN IF self.retry_count > 0
         THEN [panic |-> FALSE, self |-> Sending(self.retry_count - 1), res |-> FALSE]
         ELSE [panic |-> FALSE, self |-> Failed(error), res |-> FALSE]
    ELSE [panic |-> TRUE, self |-> self, res |-> FALSE]

status_failed(self, error) ==
    IF self.tag = "WaitingConfirmation"
    THEN IF self.retry_count > 0
         THEN [panic |-> FALSE, self |-> Sending(self.retry_count - 1), res |-> TRUE]
         ELSE [panic |-> FALSE, self |-> Failed(error), res |-> FALSE]
    ELSE [panic |-> TRUE, self |-> self, res |-> FALSE]

status_confirmations(self) ==
    IF self.tag = "WaitingConfirmation"
    THEN [panic |-> FALSE,
          res |-> IF self.confirmations = None THEN 0 ELSE self.confirmations[1]]
    ELSE [panic |-> TRUE, res |-> 0]

(***************************************************************************)
(* Transactions, send futures and the results of the RPC calls.            *)
(***************************************************************************)
\* builder(blockhash_cache): the transaction of builder idx, signed over the
\* blockhash the cache holds when the builder runs.
builder(idx, blockhash) == [idx |-> idx, blockhash |-> blockhash]

\* The first signature of a signed transaction, which send_transaction returns.
SignatureOf(tx) == <<tx.idx, tx.blockhash>>

\* BlockhashCache::get
get(hash) == hash

\* send_one_tx that builds its transaction over the default blockhash instead
\* of reading the cache.
send_one_tx_ignores_cache(blockhash, delay, idx) ==
    [idx |-> idx, tx |-> builder(idx, ZeroHash), delay |-> delay]

send_one_tx(blockhash, delay, idx) ==
    [idx |-> idx, tx |-> builder(idx, get(blockhash)), delay |-> delay]

\* TxSendResult::from_result applied to the outcome of send_transaction.
TxSendResults(future) ==
    {[tag |-> "Success", idx |-> future.idx, signature |-> SignatureOf(future.tx)]}
    \cup {[tag |-> "Fail", idx |-> future.idx, error |-> e] : e \in RpcErrors}

\* TxStatusResult for one index, as start_status_check's future builds it from
\* one entry of the getSignatureStatuses response.
TxStatusResults(idx) ==
    {[tag |-> "Success", idx |-> idx], [tag |-> "Absent", idx |-> idx]}
    \cup {[tag |-> "Pending", idx |-> idx, confirmations |-> c] :
            c \in 0..MaxConfirmations}
    \cup {[tag |-> "Fail", idx |-> idx, error |-> e] : e \in TransactionErrors}

RECURSIVE SetToSeq(_)
SetToSeq(S) ==
    IF S = {} THEN << >>
    ELSE LET m == CHOOSE x \in S : \A y \in S : x <= y
         IN  <<m>> \o SetToSeq(S \ {m})

Remove(seq, k) == SubSeq(seq, 1, k - 1) \o SubSeq(seq, k + 1, Len(seq))

\* FuturesUnordered::push.  The collection has no order: its futures are kept
\* by index, those of one index in push order.
push(futures, future) ==
    LET n == Cardinality({k \in DOMAIN futures : futures[k].idx <= future.idx})
    IN  SubSeq(futures, 1, n) \o <<future>> \o SubSeq(futures, n + 1, Len(futures))

RECURSIVE push_all(_, _)
push_all(futures, pushed) ==
    IF pushed = << >> THEN futures
    ELSE push_all(push(futures, Head(pushed)), Tail(pushed))

\* apply_send_result that does not enter a sent index into in_status_check.
apply_send_result_skips_status_check(status, checking, blockhash, retry_delay, send_result) ==
    LET idx == send_result.idx IN
    IF send_result.tag = "Success"
    THEN LET r == send_success(status[idx], send_result.signature) IN
         [panic |-> r.panic,
          execution_status |-> [status EXCEPT ![idx] = r.self],
          in_status_check |-> checking,
          pushed |-> << >>]
    ELSE LET r == send_failed(status[idx], send_result.error) IN
         [panic |-> r.panic,
          execution_status |-> [status EXCEPT ![idx] = r.self],
          in_status_check |-> checking,
          pushed |-> IF r.res THEN <<send_one_tx(blockhash, retry_delay, idx)>>
                     ELSE << >>]

\* apply_send_result that re-queues a failed send whatever send_failed answers.
apply_send_result_always_resends(status, checking, blockhash, retry_delay, send_result) ==
    LET idx == send_result.idx IN
    IF send_result.tag = "Success"
    THEN LET r == send_success(status[idx], send_result.signature) IN
         [panic |-> r.panic,
          execution_status |-> [status EXCEPT ![idx] = r.self],
          in_status_check |-> checking \cup {idx},
          pushed |-> << >>]
    ELSE LET r == send_failed(status[idx], send_result.error) IN
         [panic |-> r.panic,
          execution_status |-> [status EXCEPT ![idx] = r.self],
          in_status_check |-> checking,
          pushed |-> <<send_one_tx(blockhash, retry_delay, idx)>>]

apply_send_result(status, checking, blockhash, retry_delay, send_result) ==
    LET idx == send_result.idx IN
    IF send_result.tag = "Success"
    THEN LET r == send_success(status[idx], send_result.signature) IN
         [panic |-> r.panic,
          execution_status |-> [status EXCEPT ![idx] = r.self],
          in_status_check |-> checking \cup {idx},
          pushed |-> << >>]
    ELSE LET r == send_failed(status[idx], send_result.error) IN
         [panic |-> r.panic,
          execution_status |-> [status EXCEPT ![idx] = r.self],
          in_status_check |-> checking,
          pushed |-> IF r.res THEN <<send_one_tx(blockhash, retry_delay, idx)>>
                     ELSE << >>]

\* start_status_check that pairs the indices with the signatures in another order.
start_status_check_unpaired(since_last, status, checking) ==
    LET iteration_time == Max(0, since_last)
        delay == Max(0, StatusCheckPeriod - iteration_time)
        indices == SetToSeq(checking)
        n == Len(indices)
        sigs == [k \in 1..n |-> signature_for_status_check(status[indices[n + 1 - k]])]
    IN  [panic |-> \E k \in 1..n : sigs[k].panic,
         last_status_check |-> 0 - delay,
         task |-> [indices |-> indices,
                   signatures |-> [k \in 1..n |-> sigs[k].res]]]

\* start_status_check with no delay: the new task goes on at once.
start_status_check_no_delay(since_last, status, checking) ==
    LET indices == SetToSeq(checking)
        sigs == [k \in 1..Len(indices) |-> signature_for_status_check(status[indices[k]])]
    IN  [panic |-> \E k \in 1..Len(indices) : sigs[k].panic,
         last_status_check |-> 0,
         task |-> [indices |-> indices,
                   signatures |-> [k \in 1..Len(indices) |-> sigs[k].res]]]

start_status_check(since_last, status, checking) ==
    LET iteration_time == Max(0, since_last)
        delay == Max(0, StatusCheckPeriod - iteration_time)
        indices == SetToSeq(checking)
        sigs == [k \in 1..Len(indices) |-> signature_for_status_check(status[indices[k]])]
    IN  [panic |-> \E k \in 1..Len(indices) : sigs[k].panic,
         last_status_check |-> 0 - delay,
         task |-> [indices |-> indices,
                   signatures |-> [k \in 1..Len(indices) |-> sigs[k].res]]]

\* The Absent arm of apply_status_result that re-sends while it waits more.
apply_absent_resend_on_wait(st, blockhash, retry_delay, idx) ==
    LET r == status_absent(st.execution_status[idx]) IN
    IF r.res = "Failed" THEN
        [st EXCEPT !.panic = r.panic,
                   !.execution_status[idx] = r.self,
                   !.in_status_check = @ \ {idx},
                   !.failed_count = @ + 1]
    ELSE
        [st EXCEPT !.panic = r.panic,
                   !.execution_status[idx] = r.self,
                   !.in_status_check = IF r.res = "Retry" THEN @ \ {idx} ELSE @,
                   !.pushed = Append(@, send_one_tx(blockhash, retry_delay, idx))]

\* The Absent arm that leaves a retried index in in_status_check.
apply_absent_keeps_polling(st, blockhash, retry_delay, idx) ==
    LET r == status_absent(st.execution_status[idx]) IN
    IF r.res = "WaitMore" THEN
        [st EXCEPT !.panic = r.panic, !.execution_status[idx] = r.self]
    ELSE IF r.res = "Retry" THEN
        [st EXCEPT !.panic = r.panic,
                   !.execution_status[idx] = r.self,
                   !.pushed = Append(@, send_one_tx(blockhash, retry_delay, idx))]
    ELSE
        [st EXCEPT !.panic = r.panic,
                   !.execution_status[idx] = r.self,
                   !.in_status_check = @ \ {idx},
                   !.failed_count = @ + 1]

\* The Absent arm of the match in apply_status_result.
apply_absent(st, blockhash, retry_delay, idx) ==
    LET r == status_absent(st.execution_status[idx]) IN
    IF r.res = "WaitMore" THEN
        [st EXCEPT !.panic = r.panic, !.execution_status[idx] = r.self]
    ELSE IF r.res = "Retry" THEN
        [st EXCEPT !.panic = r.panic,
                   !.execution_status[idx] = r.self,
                   !.in_status_check = @ \ {idx},
                   !.pushed = Append(@, send_one_tx(blockhash, retry_delay, idx))]
    ELSE
        [st EXCEPT !.panic = r.panic,
                   !.execution_status[idx] = r.self,
                   !.in_status_check = @ \ {idx},
                   !.failed_count = @ + 1]

\* apply_status_result's match with a Fail arm that does not count the failure.
apply_one_status_result_fail_uncounted(st, blockhash, retry_delay, status_result) ==
    LET idx == status_result.idx
        self == st.execution_status[idx]
    IN
    IF st.panic THEN st
    ELSE IF status_result.tag = "Success" THEN
        LET r == status_success(self) IN
        [st EXCEPT !.panic = r.panic,
                   !.in_status_check = @ \ {idx},
                   !.execution_status[idx] = r.self,
                   !.succeeded_count = @ + 1]
    ELSE IF status_result.tag = "Absent" THEN
        apply_absent(st, blockhash, retry_delay, idx)
    ELSE IF status_result.tag = "Pending" THEN
        LET r == status_pending(self, status_result.confirmations) IN
        [st EXCEPT !.panic = r.panic, !.execution_status[idx] = r.self]
    ELSE
        LET r == status_failed(self, status_result.error) IN
        IF r.res THEN
            [st EXCEPT !.panic = r.panic,
                       !.execution_status[idx] = r.self,
                       !.in_status_check = @ \ {idx},
                       !.pushed = Append(@, send_one_tx(blockhash, retry_delay, idx))]
        ELSE
            [st EXCEPT !.panic = r.panic,
                       !.execution_status[idx] = r.self,
                       !.in_status_check = @ \ {idx}]

apply_one_status_result(st, blockhash, retry_delay, status_result) ==
    LET idx == status_result.idx
        self == st.execution_status[idx]
    IN
    IF st.panic THEN st
    ELSE IF status_result.tag = "Success" THEN
        LET r == status_success(self) IN
        [st EXCEPT !.panic = r.panic,
                   !.in_status_check = @ \ {idx},
                   !.execution_status[idx] = r.self,
                   !.succeeded_count = @ + 1]
    ELSE IF status_result.tag = "Absent" THEN
        apply_absent(st, blockhash, retry_delay, idx)
    ELSE IF status_result.tag = "Pending" THEN
        LET r == status_pending(self, status_result.confirmations) IN
        [st EXCEPT !.panic = r.panic, !.execution_status[idx] = r.self]
    ELSE
        LET r == status_failed(self, status_result.error) IN
        IF r.res THEN
            [st EXCEPT !.panic = r.panic,
                       !.execution_status[idx] = r.self,
                       !.in_status_check = @ \ {idx},
                       !.pushed = Append(@, send_one_tx(blockhash, retry_delay, idx))]
        ELSE
            [st EXCEPT !.panic = r.panic,
                       !.execution_status[idx] = r.self,
                       !.in_status_check = @ \ {idx},
                       !.failed_count = @ + 1]

RECURSIVE apply_status_result(_, _, _, _)
apply_status_result(st, blockhash, retry_delay, status_results) ==
    IF status_results = << >> THEN st
    ELSE apply_status_result(
            apply_one_status_result(st, blockhash, retry_delay, Head(status_results)),
            blockhash, retry_delay, Tail(status_results))

\* update_progress_bar: whether it panics, and the confirmations it shows.
update_progress_bar(status, checking) ==
    LET confirmations == {status_confirmations(status[i]).res : i \in checking}
        min_confirmations ==
            IF checking = {} THEN 0
            ELSE CHOOSE c \in confirmations : \A o \in confirmations : c <= o
    IN  [panic |-> \E i \in checking : status_confirmations(status[i]).panic,
         min_confirmations |-> Min(min_confirmations, MAX_CONFIRMATIONS)]

\* The lines run_impl prints after the loop.
RECURSIVE FailedErrors(_)
FailedErrors(status) ==
    IF status = << >> THEN << >>
    ELSE (IF Head(status).tag = "Failed" THEN <<Head(status).error>> ELSE << >>)
         \o FailedErrors(Tail(status))

StatusList(status) == [k \in 1..tx_builder_count |-> status[k - 1]]

print_failures(failed, status) ==
    IF failed > 0 THEN FailedErrors(StatusList(status)) ELSE << >>

(***************************************************************************)
(* BlockhashCache                                                          *)
(***************************************************************************)
\* The outcomes of get_latest_blockhash.
BlockhashResults == [ok : {TRUE}, blockhash : Hashes] \cup {[ok |-> FALSE]}

\* refresh that reports an unchanged blockhash as an error.
refresh_errors_on_same_hash(hash, rpc_result) ==
    IF ~rpc_result.ok THEN [ok |-> FALSE, last_hash |-> hash]
    ELSE IF hash = rpc_result.blockhash THEN [ok |-> FALSE, last_hash |-> hash]
    ELSE [ok |-> TRUE, last_hash |-> rpc_result.blockhash]

\* refresh that stores the default hash when the request fails.
refresh_default_on_error(hash, rpc_result) ==
    IF ~rpc_result.ok THEN [ok |-> FALSE, last_hash |-> ZeroHash]
    ELSE IF hash = rpc_result.blockhash THEN [ok |-> TRUE, last_hash |-> hash]
    ELSE [ok |-> TRUE, last_hash |-> rpc_result.blockhash]

refresh(hash, rpc_result) ==
    IF ~rpc_result.ok THEN [ok |-> FALSE, last_hash |-> hash]
    ELSE IF hash = rpc_result.blockhash THEN [ok |-> TRUE, last_hash |-> hash]
    ELSE [ok |-> TRUE, last_hash |-> rpc_result.blockhash]

(***************************************************************************)
(* run_impl                                                                *)
(***************************************************************************)
\* No benchmark runs.
BenchIdle ==
    /\ bench_args = << >>
    /\ bench_now = 0
    /\ benchmark_end_timer = FALSE
    /\ publishers_shutdown = FALSE
    /\ publishers = << >>
    /\ update_results = [success |-> 0, fail |-> 0]
    /\ stats = [successful_tx |-> 0, failed_tx |-> 0]
    /\ results_sent = 0
    /\ stats_line = << >>

\* The status task has sent no request.
PollIdle ==
    /\ status_pc = "sleep"
    /\ status_rpcs = 0
    /\ rpc_clock = -1
    /\ rpc_gap = -1

\* No refresh loop of a runner has made a request.
RunIdle ==
    /\ attempt_age = 0
    /\ since_refresh = -1
    /\ refresh_gap = -1
    /\ refresh_seen = << >>

\* No LeaderTpuCache has been constructed.
CacheIdle ==
    /\ leader_tpu_cache = << >>
    /\ notifications = FALSE
    /\ last_cluster_refresh = 0
    /\ sleep_ms = 1000
    /\ cache_update_info = << >>
    /\ leaders_requested = 0
    /\ leaders_from = 0
    /\ teardown = << >>
    /\ cluster_refreshed = FALSE
    /\ tpu_call = << >>

\* No NodeAddressService has been constructed.
NasIdle ==
    /\ nas_pc = "none"
    /\ recent_slots = << >>
    /\ slot_call = << >>
    /\ CacheIdle

Init ==
    /\ pc = "init"
    /\ tx_builder_count \in 0..MaxTx
    /\ retry_count \in 0..MaxRetry
    /\ execution_status = << >>
    /\ sending_txs = << >>
    /\ in_status_check = {}
    /\ status_task = [indices |-> << >>, signatures |-> << >>]
    /\ last_status_check = 0
    /\ succeeded_count = 0
    /\ failed_count = 0
    /\ shutdown = FALSE
    /\ last_hash = ZeroHash
    /\ refresh_pc = "start"
    /\ loop_start = 0
    /\ attempts = << >>
    /\ last_signature = << >>
    /\ printed = << >>
    /\ RunIdle
    /\ BenchIdle
    /\ PollIdle
    /\ NasIdle

\* The condition of the while loop of run_impl.
LoopCondition == sending_txs # << >> \/ in_status_check # {}

\* run_impl is suspended in its select!, which polls all the branches.
InSelect == pc = "loop" /\ LoopCondition

\* The number of futures of index i among the futures fs.
CountFor(fs, i) == Cardinality({k \in DOMAIN fs : fs[k].idx = i})

\* One round of the loop of BlockhashCache::init; once the cache holds a
\* blockhash, run_impl goes on to its loop without suspending.
BlockhashCacheInit ==
    /\ pc = "init"
    /\ \E rpc_result \in BlockhashResults :
        LET hash == refresh(last_hash, rpc_result).last_hash
            status == [i \in Idx |-> Sending(retry_count)]
            check == start_status_check(0, status, {})
        IN
        /\ last_hash' = hash
        /\ IF get(hash) # ZeroHash
           THEN /\ pc' = "loop"
                /\ execution_status' = status
                /\ sending_txs' = [k \in 1..tx_builder_count |->
                                      send_one_tx(hash, 0, k - 1)]
                /\ attempts' = [i \in Idx |-> 1]
                /\ last_signature' = [i \in Idx |-> None]
                /\ last_status_check' = check.last_status_check
                /\ status_task' = check.task
           ELSE UNCHANGED <<pc, execution_status, sending_txs, attempts,
                            last_signature, last_status_check, status_task>>
    /\ UNCHANGED <<tx_builder_count, retry_count, in_status_check, succeeded_count,
                   failed_count, shutdown, refresh_pc, loop_start, printed>>
    /\ UNCHANGED <<run_vars, nas_vars>>
    /\ UNCHANGED bench_vars
    /\ UNCHANGED poll_vars

\* The first branch of the select!: a send future resolves.
SendCompleted ==
    /\ InSelect
    /\ \E k \in DOMAIN sending_txs :
        /\ sending_txs[k].delay = 0
        /\ \E send_result \in TxSendResults(sending_txs[k]) :
            LET r == apply_send_result(execution_status, in_status_check, last_hash,
                                       rpc_failure_retry_delay, send_result)
            IN
            IF r.panic
            THEN /\ pc' = "panicked"
                 /\ UNCHANGED <<execution_status, sending_txs, in_status_check,
                                attempts, last_signature>>
            ELSE /\ pc' = pc
                 /\ execution_status' = r.execution_status
                 /\ in_status_check' = r.in_status_check
                 /\ sending_txs' = push_all(Remove(sending_txs, k), r.pushed)
                 /\ attempts' = [i \in Idx |-> attempts[i] + CountFor(r.pushed, i)]
                 /\ last_signature' =
                        IF send_result.tag = "Success"
                        THEN [last_signature EXCEPT
                                ![send_result.idx] = Some(send_result.signature)]
                        ELSE last_signature
    /\ UNCHANGED <<tx_builder_count, retry_count, status_task, last_status_check,
                   succeeded_count, failed_count, shutdown, last_hash, refresh_pc,
                   loop_start, printed>>
    /\ UNCHANGED <<run_vars, nas_vars>>
    /\ UNCHANGED bench_vars
    /\ UNCHANGED poll_vars

\* The results a status task can resolve to: Ok(results), one result for each
\* index it asked about.
RECURSIVE StatusResults(_)
StatusResults(indices) ==
    IF indices = << >> THEN {<< >>}
    ELSE {<<r>> \o rest : r \in TxStatusResults(Head(indices)),
                           rest \in StatusResults(Tail(indices))}

\* The second branch of the select!: the status task resolves to
\* Ok(status_results), the results are applied and the next status task is
\* started.
StatusTaskOk(status_results) ==
    /\ InSelect
    /\ last_status_check >= 0
    /\ status_results \in StatusResults(status_task.indices)
    /\ LET st == apply_status_result(
                   [panic |-> FALSE,
                    execution_status |-> execution_status,
                    in_status_check |-> in_status_check,
                    pushed |-> << >>,
                    succeeded_count |-> succeeded_count,
                    failed_count |-> failed_count],
                   last_hash, status_failure_retry_delay, status_results)
           check == start_status_check(last_status_check, st.execution_status,
                                       st.in_status_check)
       IN
       IF st.panic \/ check.panic
       THEN /\ pc' = "panicked"
            /\ UNCHANGED <<execution_status, sending_txs, in_status_check,
                           attempts, succeeded_count, failed_count,
                           status_task, last_status_check>>
       ELSE /\ pc' = pc
            /\ execution_status' = st.execution_status
            /\ in_status_check' = st.in_status_check
            /\ sending_txs' = push_all(sending_txs, st.pushed)
            /\ attempts' = [i \in Idx |-> attempts[i] + CountFor(st.pushed, i)]
            /\ succeeded_count' = st.succeeded_count
            /\ failed_count' = st.failed_count
            /\ status_task' = check.task
            /\ last_status_check' = check.last_status_check
    /\ UNCHANGED <<tx_builder_count, retry_count, shutdown, last_hash, refresh_pc,
                   loop_start, last_signature, printed>>
    /\ UNCHANGED <<run_vars, nas_vars>>
    /\ UNCHANGED bench_vars

StatusCompletedWith(status_results) ==
    /\ StatusTaskOk(status_results)
    /\ UNCHANGED poll_vars

StatusCompleted ==
    \E status_results \in StatusResults(status_task.indices) :
        StatusCompletedWith(status_results)

\* The second branch of the select!: the status request failed; the next
\* status task is started.
StatusTaskErr ==
    /\ InSelect
    /\ last_status_check >= 0
    /\ status_task.indices # << >>
    /\ LET check == start_status_check(last_status_check, execution_status,
                                       in_status_check)
       IN
       IF check.panic
       THEN /\ pc' = "panicked"
            /\ UNCHANGED <<status_task, last_status_check>>
       ELSE /\ pc' = pc
            /\ status_task' = check.task
            /\ last_status_check' = check.last_status_check
    /\ UNCHANGED <<tx_builder_count, retry_count, execution_status, sending_txs,
                   in_status_check, succeeded_count, failed_count, shutdown,
                   last_hash, refresh_pc, loop_start, attempts, last_signature,
                   printed>>
    /\ UNCHANGED <<run_vars, nas_vars>>
    /\ UNCHANGED bench_vars

StatusRequestFailed ==
    /\ StatusTaskErr
    /\ UNCHANGED poll_vars

\* Time passes: the sleep of a send future is over.
SendDelayOver ==
    /\ InSelect
    /\ \E k \in DOMAIN sending_txs :
        /\ sending_txs[k].delay > 0
        /\ sending_txs' = [sending_txs EXCEPT ![k].delay = 0]
    /\ UNCHANGED <<pc, tx_builder_count, retry_count, execution_status,
                   in_status_check, status_task, last_status_check, succeeded_count,
                   failed_count, shutdown, last_hash, refresh_pc, loop_start,
                   attempts, last_signature, printed>>
    /\ UNCHANGED <<run_vars, nas_vars>>
    /\ UNCHANGED bench_vars
    /\ UNCHANGED poll_vars

\* Time passes: MAX_ABSENT_SLOTS slots have gone by since wait_start of an index.
AbsentDeadlinePassed ==
    /\ InSelect
    /\ \E i \in Idx :
        /\ execution_status[i].tag = "WaitingConfirmation"
        /\ execution_status[i].wait_start < AbsentDeadline
        /\ execution_status' = [execution_status EXCEPT ![i].wait_start = AbsentDeadline]
    /\ UNCHANGED <<pc, tx_builder_count, retry_count, sending_txs, in_status_check,
                   status_task, last_status_check, succeeded_count, failed_count,
                   shutdown, last_hash, refresh_pc, loop_start, attempts,
                   last_signature, printed>>
    /\ UNCHANGED <<run_vars, nas_vars>>
    /\ UNCHANGED bench_vars
    /\ UNCHANGED poll_vars

\* Time passes up to the instant last_status_check: the sleep of the status
\* task is over.
StatusCheckTimePasses ==
    /\ InSelect
    /\ last_status_check < 0
    /\ last_status_check' = 0
    /\ UNCHANGED <<pc, tx_builder_count, retry_count, execution_status, sending_txs,
                   in_status_check, status_task, succeeded_count, failed_count,
                   shutdown, last_hash, refresh_pc, loop_start, attempts,
                   last_signature, printed>>
    /\ UNCHANGED <<run_vars, nas_vars>>
    /\ UNCHANGED bench_vars
    /\ UNCHANGED poll_vars

\* Time passes: min_loop_duration has gone by since loop_start.
RefreshPeriodPasses ==
    /\ InSelect
    /\ refresh_pc \in {"refresh", "sleep"}
    /\ loop_start < min_loop_duration
    /\ loop_start' = min_loop_duration
    /\ UNCHANGED <<pc, tx_builder_count, retry_count, execution_status, sending_txs,
                   in_status_check, status_task, last_status_check, succeeded_count,
                   failed_count, shutdown, last_hash, refresh_pc, attempts,
                   last_signature, printed>>
    /\ UNCHANGED <<run_vars, nas_vars>>
    /\ UNCHANGED bench_vars
    /\ UNCHANGED poll_vars

\* The holder of the token given to shutdown_via cancels it.
CancelToken ==
    /\ pc \in {"init", "loop", "run_init", "run_nas_init", "run_select"}
    /\ ~shutdown
    /\ shutdown' = TRUE
    /\ UNCHANGED <<pc, tx_builder_count, retry_count, execution_status, sending_txs,
                   in_status_check, status_task, last_status_check, succeeded_count,
                   failed_count, last_hash, refresh_pc, loop_start, attempts,
                   last_signature, printed>>
    /\ UNCHANGED <<run_vars, nas_vars>>
    /\ UNCHANGED bench_vars
    /\ UNCHANGED poll_vars

\* The third branch of the select!: the progress bar is updated.
ProgressTick ==
    /\ InSelect
    /\ pc' = IF update_progress_bar(execution_status, in_status_check).panic
             THEN "panicked" ELSE pc
    /\ UNCHANGED <<tx_builder_count, retry_count, execution_status, sending_txs,
                   in_status_check, status_task, last_status_check, succeeded_count,
                   failed_count, shutdown, last_hash, refresh_pc, loop_start, attempts,
                   last_signature, printed>>
    /\ UNCHANGED <<run_vars, nas_vars>>
    /\ UNCHANGED bench_vars
    /\ UNCHANGED poll_vars

\* The loop ends: final progress bar, shutdown.cancel().
LoopExit ==
    /\ pc = "loop"
    /\ ~LoopCondition
    /\ IF update_progress_bar(execution_status, in_status_check).panic
       THEN pc' = "panicked" /\ shutdown' = shutdown
       ELSE pc' = "await_refresh" /\ shutdown' = TRUE
    /\ UNCHANGED <<tx_builder_count, retry_count, execution_status, sending_txs,
                   in_status_check, status_task, last_status_check, succeeded_count,
                   failed_count, last_hash, refresh_pc, loop_start, attempts,
                   last_signature, printed>>
    /\ UNCHANGED <<run_vars, nas_vars>>
    /\ UNCHANGED bench_vars
    /\ UNCHANGED poll_vars

\* The failure report after blockhash_cache_refresh_task has been awaited.
PrintFailures ==
    /\ pc = "report"
    /\ printed' = print_failures(failed_count, execution_status)
    /\ pc' = "done"
    /\ UNCHANGED <<tx_builder_count, retry_count, execution_status, sending_txs,
                   in_status_check, status_task, last_status_check, succeeded_count,
                   failed_count, shutdown, last_hash, refresh_pc, loop_start, attempts,
                   last_signature>>
    /\ UNCHANGED <<run_vars, nas_vars>>
    /\ UNCHANGED bench_vars
    /\ UNCHANGED poll_vars

(***************************************************************************)
(* BlockhashCache::run_refresh_loop, polled by run_impl: by the fourth     *)
(* branch of its select!, and by the await after the loop.                 *)
(***************************************************************************)
RefreshPolled == InSelect \/ pc = "await_refresh"

\* Where run_impl goes when the refresh task is at position p after a poll.
AfterRefreshPoll(p) ==
    IF p # "done" THEN pc
    ELSE IF pc = "loop" THEN "panicked" ELSE "report"

\* The head of the while loop: the next position, and the new loop_start.
RefreshLoopHead ==
    IF shutdown THEN [pc |-> "done", loop_start |-> loop_start]
    ELSE [pc |-> "refresh", loop_start |-> 0]

\* A loop that gives up when a request fails.
AfterRefresh_returns_on_error(ok) ==
    IF ~ok THEN "done"
    ELSE IF Max(0, min_loop_duration - loop_start) # 0
    THEN (IF shutdown THEN "done" ELSE "sleep")
    ELSE RefreshLoopHead.pc

\* Where the loop is once refresh has returned ok or an error.  With the token
\* cancelled the next select! takes its exit.cancelled() branch at once: a new
\* request or a new sleep is pending when it is first polled.
AfterRefresh(ok) ==
    IF ~ok THEN (IF shutdown THEN "done" ELSE "refresh")
    ELSE IF Max(0, min_loop_duration - loop_start) # 0
    THEN (IF shutdown THEN "done" ELSE "sleep")
    ELSE RefreshLoopHead.pc

RefreshLoopStart ==
    /\ RefreshPolled
    /\ refresh_pc = "start"
    /\ refresh_pc' = RefreshLoopHead.pc
    /\ loop_start' = RefreshLoopHead.loop_start
    /\ pc' = AfterRefreshPoll(refresh_pc')
    /\ UNCHANGED <<tx_builder_count, retry_count, execution_status, sending_txs,
                   in_status_check, status_task, last_status_check, succeeded_count,
                   failed_count, shutdown, last_hash, attempts, last_signature,
                   printed>>
    /\ UNCHANGED <<run_vars, nas_vars>>
    /\ UNCHANGED bench_vars
    /\ UNCHANGED poll_vars

\* self.refresh(rpc_client) resolves in the inner loop.
RefreshLoopRefresh ==
    /\ RefreshPolled
    /\ refresh_pc = "refresh"
    /\ \E rpc_result \in BlockhashResults :
        LET res == refresh(last_hash, rpc_result)
            loop_wait_time == Max(0, min_loop_duration - loop_start)
        IN
        /\ last_hash' = res.last_hash
        /\ refresh_pc' = AfterRefresh(res.ok)
        /\ loop_start' = IF res.ok /\ loop_wait_time = 0
                         THEN RefreshLoopHead.loop_start ELSE loop_start
    /\ pc' = AfterRefreshPoll(refresh_pc')
    /\ UNCHANGED <<tx_builder_count, retry_count, execution_status, sending_txs,
                   in_status_check, status_task, last_status_check, succeeded_count,
                   failed_count, shutdown, attempts, last_signature, printed>>
    /\ UNCHANGED <<run_vars, nas_vars>>
    /\ UNCHANGED bench_vars
    /\ UNCHANGED poll_vars

\* sleep(loop_wait_time) is over.
RefreshLoopSleepOver ==
    /\ RefreshPolled
    /\ refresh_pc = "sleep"
    /\ loop_start >= min_loop_duration
    /\ refresh_pc' = RefreshLoopHead.pc
    /\ loop_start' = RefreshLoopHead.loop_start
    /\ pc' = AfterRefreshPoll(refresh_pc')
    /\ UNCHANGED <<tx_builder_count, retry_count, execution_status, sending_txs,
                   in_status_check, status_task, last_status_check, succeeded_count,
                   failed_count, shutdown, last_hash, attempts, last_signature,
                   printed>>
    /\ UNCHANGED <<run_vars, nas_vars>>
    /\ UNCHANGED bench_vars
    /\ UNCHANGED poll_vars

\* exit.cancelled() resolves, in either select! of run_refresh_loop.
RefreshLoopCancelled ==
    /\ RefreshPolled
    /\ refresh_pc \in {"refresh", "sleep"}
    /\ shutdown
    /\ refresh_pc' = "done"
    /\ pc' = AfterRefreshPoll(refresh_pc')
    /\ UNCHANGED <<tx_builder_count, retry_count, execution_status, sending_txs,
                   in_status_check, status_task, last_status_check, succeeded_count,
                   failed_count, shutdown, last_hash, loop_start, attempts,
                   last_signature, printed>>
    /\ UNCHANGED <<run_vars, nas_vars>>
    /\ UNCHANGED bench_vars
    /\ UNCHANGED poll_vars

Next ==
    \/ BlockhashCacheInit
    \/ SendCompleted
    \/ StatusCompleted
    \/ StatusRequestFailed
    \/ ProgressTick
    \/ SendDelayOver
    \/ AbsentDeadlinePassed
    \/ StatusCheckTimePasses
    \/ RefreshPeriodPasses
    \/ CancelToken
    \/ LoopExit
    \/ PrintFailures
    \/ RefreshLoopStart
    \/ RefreshLoopRefresh
    \/ RefreshLoopSleepOver
    \/ RefreshLoopCancelled

Spec == Init /\ [][Next]_vars

(***************************************************************************)
(* run without shutdown_via: nobody but run_impl holds the token.  Every   *)
(* RPC call is answered: BlockhashCache::init gets its blockhash, every    *)
(* send future resolves and status tasks keep resolving to a result list;  *)
(* time passes; a task that can run does run.                              *)
(***************************************************************************)
NextUncancelled ==
    \/ BlockhashCacheInit
    \/ SendCompleted
    \/ StatusCompleted
    \/ StatusRequestFailed
    \/ ProgressTick
    \/ SendDelayOver
    \/ AbsentDeadlinePassed
    \/ StatusCheckTimePasses
    \/ RefreshPeriodPasses
    \/ LoopExit
    \/ PrintFailures
    \/ RefreshLoopStart
    \/ RefreshLoopRefresh
    \/ RefreshLoopSleepOver
    \/ RefreshLoopCancelled

LiveSpec ==
    /\ Init
    /\ [][NextUncancelled]_vars
    /\ WF_vars(BlockhashCacheInit)
    /\ WF_vars(SendDelayOver)
    /\ WF_vars(SendCompleted)
    /\ WF_vars(StatusCheckTimePasses)
    /\ SF_vars(StatusCompleted)
    /\ WF_vars(AbsentDeadlinePassed)
    /\ WF_vars(LoopExit)
    /\ WF_vars(RefreshLoopStart)
    /\ WF_vars(RefreshLoopCancelled)
    /\ WF_vars(PrintFailures)

(***************************************************************************)
(* RecentLeaderSlots (src/src/node_address_service.rs)                     *)
(***************************************************************************)
MAX_SLOT_SKIP_DISTANCE == 4 * 12
RecentSlotsCapacity == 12

\* The slots of the slot updates: a slot, and one beyond what the estimate
\* accepts next to it in a short window.
SlotValues == {0, FarSlot}

\* The stream of the slot estimator scenario, one broadcast far in the future.
Scenario == <<100, 150, 120, 130, 140, 125, 135, 200000, 145, 128, 132, 138>>

new(current_slot) == <<current_slot>>

RECURSIVE pop_front_while_over(_)
pop_front_while_over(slots) ==
    IF Len(slots) > RecentSlotsCapacity
    THEN pop_front_while_over(Tail(slots))
    ELSE slots

\* record_slot that drops the newest entry of a full window.
record_slot_drops_newest(slots, current_slot) ==
    IF Len(slots) >= RecentSlotsCapacity THEN slots
    ELSE Append(slots, current_slot)

record_slot(slots, current_slot) ==
    pop_front_while_over(Append(slots, current_slot))

sort_unstable(slots) == SortSeq(slots, LAMBDA a, b : a < b)

\* .into_iter().rev().find(|slot| *slot <= limit): an entry, or none.
RECURSIVE rev_find(_, _)
rev_find(sorted, limit) ==
    IF sorted = << >> THEN None
    ELSE IF sorted[Len(sorted)] <= limit THEN Some(sorted[Len(sorted)])
    ELSE rev_find(SubSeq(sorted, 1, Len(sorted) - 1), limit)

\* estimated_current_slot that takes the median as the ceiling.
estimated_current_slot_no_skip(slots) ==
    LET sorted == sort_unstable(slots)
        max_index == Len(sorted) - 1
        median_index == max_index \div 2
        found == rev_find(sorted, sorted[median_index + 1])
    IN  [panic |-> slots = << >> \/ found = None,
         slot |-> IF found = None THEN 0 ELSE found[1]]

\* The estimate, and whether the assert! or the unwrap() panics.
estimated_current_slot(slots) ==
    LET sorted == sort_unstable(slots)
        max_index == Len(sorted) - 1
        median_index == max_index \div 2
        median_recent_slot == sorted[median_index + 1]
        expected_current_slot == median_recent_slot + (max_index - median_index)
        max_reasonable_current_slot == expected_current_slot + MAX_SLOT_SKIP_DISTANCE
        found == IF slots = << >> THEN None
                 ELSE rev_find(sorted, max_reasonable_current_slot)
    IN  [panic |-> slots = << >> \/ found = None,
         slot |-> IF found = None THEN 0 ELSE found[1]]

\* A RecentLeaderSlots on its own, fed with slot updates and asked for its
\* estimate.
SlotsInit ==
    /\ pc = "slots"
    /\ tx_builder_count = 0
    /\ retry_count = 0
    /\ execution_status = << >>
    /\ sending_txs = << >>
    /\ in_status_check = {}
    /\ status_task = [indices |-> << >>, signatures |-> << >>]
    /\ last_status_check = 0
    /\ succeeded_count = 0
    /\ failed_count = 0
    /\ shutdown = FALSE
    /\ last_hash = ZeroHash
    /\ refresh_pc = "start"
    /\ loop_start = 0
    /\ attempts = << >>
    /\ last_signature = << >>
    /\ printed = << >>
    /\ RunIdle
    /\ BenchIdle
    /\ PollIdle
    /\ nas_pc = "none"
    /\ \E current_slot \in SlotValues \cup {Scenario[1]} :
        recent_slots = new(current_slot)
    /\ slot_call = << >>
    /\ CacheIdle

RecordSlotCall(current_slot) ==
    LET slots == record_slot(recent_slots, current_slot)
        pushed == Append(recent_slots, current_slot)
    IN
    /\ recent_slots' = slots
    /\ slot_call' = <<[op |-> "record_slot", slot |-> current_slot,
                       evicted |-> SubSeq(pushed, 1, Len(pushed) - Len(slots))]>>
    /\ UNCHANGED <<pc, shepherd_vars, shutdown, last_hash, refresh_pc, loop_start,
                   run_vars, nas_pc, cache_vars>>

\* recent_slots.record_slot(current_slot) for a slot update.
RecordSlot ==
    /\ pc = "slots"
    /\ \E current_slot \in SlotValues : RecordSlotCall(current_slot)
    /\ UNCHANGED bench_vars

\* record_slot for the next slot of the scenario.
RecordScenarioSlot ==
    /\ pc = "slots"
    /\ \E n \in 1..(Len(Scenario) - 1) :
        /\ recent_slots = SubSeq(Scenario, 1, n)
        /\ RecordSlotCall(Scenario[n + 1])
    /\ UNCHANGED bench_vars

\* recent_slots.estimated_current_slot()
EstimatedCurrentSlot ==
    /\ pc = "slots"
    /\ LET r == estimated_current_slot(recent_slots) IN
        IF r.panic
        THEN pc' = "panicked" /\ slot_call' = slot_call
        ELSE /\ pc' = pc
             /\ slot_call' = <<[op |-> "estimated_current_slot", slot |-> r.slot,
                                evicted |-> << >>]>>
    /\ UNCHANGED <<shepherd_vars, shutdown, last_hash, refresh_pc, loop_start,
                   run_vars, nas_pc, recent_slots, cache_vars>>
    /\ UNCHANGED bench_vars

SlotsNext ==
    \/ RecordSlot
    \/ RecordScenarioSlot
    \/ EstimatedCurrentSlot

SlotsSpec == SlotsInit /\ [][SlotsNext]_vars

\* Slots as u64 values, in a width of SlotBits bits: MaxSlot stands for
\* u64::MAX and the arithmetic of estimated_current_slot wraps at SlotModulus.
SlotModulus == 2 ^ SlotBits
MaxSlot == SlotModulus - 1

saturating_add(a, b) == IF a + b > MaxSlot THEN MaxSlot ELSE a + b

wrapping_add(a, b) == (a + b) % SlotModulus

\* The slots of the slot updates over the whole range: the lowest ones, the
\* highest ones, and the highest that leaves room for the skip distance.
WideSlotValues == {0, 1, MaxSlot - MAX_SLOT_SKIP_DISTANCE - 1, MaxSlot - 1, MaxSlot}

\* estimated_current_slot on u64 slots.  Its two additions are plain `+`:
\* a build with overflow checks panics when one overflows, a build without
\* them goes on with the wrapped sum.
estimated_current_slot_u64(slots, overflow_checks) ==
    LET sorted == sort_unstable(slots)
        max_index == Len(sorted) - 1
        median_index == max_index \div 2
        median_recent_slot == sorted[median_index + 1]
        expected_current_slot ==
            wrapping_add(median_recent_slot, max_index - median_index)
        max_reasonable_current_slot ==
            wrapping_add(expected_current_slot, MAX_SLOT_SKIP_DISTANCE)
        overflow ==
            \/ median_recent_slot + (max_index - median_index) > MaxSlot
            \/ expected_current_slot + MAX_SLOT_SKIP_DISTANCE > MaxSlot
        found == IF slots = << >> \/ (overflow /\ overflow_checks) THEN None
                 ELSE rev_find(sorted, max_reasonable_current_slot)
    IN  [overflow |-> slots # << >> /\ overflow,
         panic |-> found = None,
         slot |-> IF found = None THEN 0 ELSE found[1]]

\* A RecentLeaderSlots created with any slot of the range.
WideSlotsInit ==
    /\ pc = "slots"
    /\ tx_builder_count = 0
    /\ retry_count = 0
    /\ execution_status = << >>
    /\ sending_txs = << >>
    /\ in_status_check = {}
    /\ status_task = [indices |-> << >>, signatures |-> << >>]
    /\ last_status_check = 0
    /\ succeeded_count = 0
    /\ failed_count = 0
    /\ shutdown = FALSE
    /\ last_hash = ZeroHash
    /\ refresh_pc = "start"
    /\ loop_start = 0
    /\ attempts = << >>
    /\ last_signature = << >>
    /\ printed = << >>
    /\ RunIdle
    /\ BenchIdle
    /\ PollIdle
    /\ nas_pc = "none"
    /\ \E current_slot \in WideSlotValues : recent_slots = new(current_slot)
    /\ slot_call = << >>
    /\ CacheIdle

\* The drain loop of NodeAddressService::run takes one slot update of any
\* slot: a Completed slot counts as the next one, saturated.
RecordWideSlot ==
    /\ pc = "slots"
    /\ Len(recent_slots) < MaxWideSlots
    /\ \E kind \in {"Completed", "FirstShredReceived"}, slot \in WideSlotValues :
        LET current_slot == IF kind = "Completed" THEN saturating_add(slot, 1)
                            ELSE slot
        IN  /\ recent_slots' = record_slot(recent_slots, current_slot)
            /\ slot_call' = <<[op |-> "record_slot", slot |-> current_slot]>>
    /\ UNCHANGED <<pc, shepherd_vars, shutdown, last_hash, refresh_pc, loop_start,
                   run_vars, nas_pc, cache_vars>>
    /\ UNCHANGED bench_vars

\* recent_slots.estimated_current_slot(), in either build.
EstimateWideSlot ==
    /\ pc = "slots"
    /\ \E overflow_checks \in BOOLEAN :
        LET r == estimated_current_slot_u64(recent_slots, overflow_checks) IN
        /\ pc' = IF r.panic THEN "panicked" ELSE pc
        /\ slot_call' = <<[op |-> "estimated_current_slot", slot |-> r.slot,
                           overflow |-> r.overflow, panic |-> r.panic]>>
    /\ UNCHANGED <<shepherd_vars, shutdown, last_hash, refresh_pc, loop_start,
                   run_vars, nas_pc, recent_slots, cache_vars>>
    /\ UNCHANGED bench_vars

WideSlotsNext ==
    \/ RecordWideSlot
    \/ EstimateWideSlot

WideSlotsSpec == WideSlotsInit /\ [][WideSlotsNext]_vars

(***************************************************************************)
(* LeaderTpuCache (src/src/node_address_service.rs)                        *)
(***************************************************************************)
MAX_FANOUT_SLOTS == 100
FIVE_MINUTES == 5 * 60

Pubkeys == {"A", "B"}

\* The leader schedule of the cluster: the leader of each slot.
LeaderAt(slot) == IF slot % 2 = 0 THEN "A" ELSE "B"

saturating_sub(a, b) == IF a > b THEN a - b ELSE 0

contains(out, socket) == \E i \in DOMAIN out : out[i] = socket

\* The answers of get_cluster_nodes: a node without a TPU address and one
\* whose pubkey does not parse, or every node with its TPU address.
PartialNodes ==
    <<[pubkey |-> Some("A"), tpu |-> Some("sA")],
      [pubkey |-> Some("B"), tpu |-> None],
      [pubkey |-> None, tpu |-> Some("sB")]>>

FullNodes ==
    <<[pubkey |-> Some("A"), tpu |-> Some("sA")],
      [pubkey |-> Some("B"), tpu |-> Some("sB")]>>

ClusterNodes == {PartialNodes, FullNodes}

ClusterNodesResults == [ok : {TRUE}, nodes : ClusterNodes] \cup {[ok |-> FALSE]}

\* The answers of get_epoch_info: a warmup epoch, or a full one.
EpochSlots == {32, 432000}

EpochInfoResults == [ok : {TRUE}, slots_in_epoch : EpochSlots] \cup {[ok |-> FALSE]}

\* The answers of get_slot_leaders(start_slot, limit).
SlotLeadersResults(start_slot, limit) ==
    {[ok |-> TRUE, leaders |-> [i \in 1..limit |-> LeaderAt(start_slot + i - 1)]],
     [ok |-> FALSE]}

RECURSIVE extract_cluster_tpu_sockets(_)
extract_cluster_tpu_sockets(cluster_contact_info) ==
    IF cluster_contact_info = << >> THEN << >>
    ELSE LET n == Len(cluster_contact_info)
             contact_info == cluster_contact_info[n]
             map == extract_cluster_tpu_sockets(SubSeq(cluster_contact_info, 1, n - 1))
         IN  IF contact_info.pubkey = None \/ contact_info.tpu = None THEN map
             ELSE [p \in DOMAIN map \cup {contact_info.pubkey[1]} |->
                      IF p = contact_info.pubkey[1] THEN contact_info.tpu[1] ELSE map[p]]

LeaderTpuCache_new(first_slot, slots_in_epoch, leaders, cluster_nodes) ==
    [first_slot |-> first_slot,
     leaders |-> leaders,
     leader_tpu_map |-> extract_cluster_tpu_sockets(cluster_nodes),
     slots_in_epoch |-> slots_in_epoch,
     last_epoch_info_slot |-> first_slot]

last_slot(cache) == cache.first_slot + saturating_sub(Len(cache.leaders), 1)

fanout(slots_in_epoch) == Min(2 * MAX_FANOUT_SLOTS, slots_in_epoch)

get_slot_leader(cache, slot) ==
    IF slot >= cache.first_slot
    THEN LET index == slot - cache.first_slot IN
         IF index < Len(cache.leaders) THEN Some(cache.leaders[index + 1]) ELSE None
    ELSE None

\* The for loop of get_leader_sockets, from leader_slot up to end.
RECURSIVE leader_sockets_from(_, _, _, _)
leader_sockets_from(cache, out, leader_slot, end) ==
    IF leader_slot >= end THEN out
    ELSE LET leader == get_slot_leader(cache, leader_slot)
             pushed == IF /\ leader # None
                          /\ leader[1] \in DOMAIN cache.leader_tpu_map
                          /\ ~contains(out, cache.leader_tpu_map[leader[1]])
                       THEN Append(out, cache.leader_tpu_map[leader[1]])
                       ELSE out
         IN  leader_sockets_from(cache, pushed, leader_slot + 1, end)

\* get_leader_sockets that reads the schedule from the caller's estimate.
get_leader_sockets_from_estimate(cache, out, estimated_slot, fanout_slots) ==
    leader_sockets_from(cache, out, estimated_slot, estimated_slot + fanout_slots)

get_leader_sockets(cache, out, estimated_slot, fanout_slots) ==
    LET current_slot == Max(estimated_slot, cache.first_slot) IN
    leader_sockets_from(cache, out, current_slot, current_slot + fanout_slots)

has_some(info) ==
    \/ info.maybe_cluster_nodes # None
    \/ info.maybe_epoch_info # None
    \/ info.maybe_slot_leaders # None

\* update_all that puts a fetched schedule after the one it replaces.
update_all_appends_schedule(cache, estimated_slot, info) ==
    LET nodes == info.maybe_cluster_nodes
        epoch == info.maybe_epoch_info
        slot_leaders == info.maybe_slot_leaders
        cluster_ok == nodes # None /\ nodes[1].ok
        epoch_ok == epoch # None /\ epoch[1].ok
        leaders_ok == slot_leaders # None /\ slot_leaders[1].ok
    IN  [cache |->
            [first_slot |-> IF leaders_ok THEN last_slot(cache) + 1 ELSE cache.first_slot,
             leaders |-> IF leaders_ok THEN slot_leaders[1].leaders ELSE cache.leaders,
             leader_tpu_map |-> IF cluster_ok
                                THEN extract_cluster_tpu_sockets(nodes[1].nodes)
                                ELSE cache.leader_tpu_map,
             slots_in_epoch |-> IF epoch_ok THEN epoch[1].slots_in_epoch
                                ELSE cache.slots_in_epoch,
             last_epoch_info_slot |-> IF epoch_ok THEN estimated_slot
                                      ELSE cache.last_epoch_info_slot],
         has_error |-> \/ (nodes # None /\ ~nodes[1].ok)
                       \/ (slot_leaders # None /\ ~slot_leaders[1].ok),
         cluster_refreshed |-> cluster_ok]

\* update_all that adds the fetched sockets to the map it holds.
update_all_merges_tpu_map(cache, estimated_slot, info) ==
    LET nodes == info.maybe_cluster_nodes
        epoch == info.maybe_epoch_info
        slot_leaders == info.maybe_slot_leaders
        cluster_ok == nodes # None /\ nodes[1].ok
        epoch_ok == epoch # None /\ epoch[1].ok
        leaders_ok == slot_leaders # None /\ slot_leaders[1].ok
    IN  [cache |->
            [first_slot |-> IF leaders_ok THEN estimated_slot ELSE cache.first_slot,
             leaders |-> IF leaders_ok THEN slot_leaders[1].leaders ELSE cache.leaders,
             leader_tpu_map |->
                IF cluster_ok
                THEN LET fresh == extract_cluster_tpu_sockets(nodes[1].nodes) IN
                     [p \in DOMAIN fresh \cup DOMAIN cache.leader_tpu_map |->
                        IF p \in DOMAIN fresh THEN fresh[p] ELSE cache.leader_tpu_map[p]]
                ELSE cache.leader_tpu_map,
             slots_in_epoch |-> IF epoch_ok THEN epoch[1].slots_in_epoch
                                ELSE cache.slots_in_epoch,
             last_epoch_info_slot |-> IF epoch_ok THEN estimated_slot
                                      ELSE cache.last_epoch_info_slot],
         has_error |-> \/ (nodes # None /\ ~nodes[1].ok)
                       \/ (slot_leaders # None /\ ~slot_leaders[1].ok),
         cluster_refreshed |-> cluster_ok]

update_all(cache, estimated_slot, info) ==
    LET nodes == info.maybe_cluster_nodes
        epoch == info.maybe_epoch_info
        slot_leaders == info.maybe_slot_leaders
        cluster_ok == nodes # None /\ nodes[1].ok
        epoch_ok == epoch # None /\ epoch[1].ok
        leaders_ok == slot_leaders # None /\ slot_leaders[1].ok
    IN  [cache |->
            [first_slot |-> IF leaders_ok THEN estimated_slot ELSE cache.first_slot,
             leaders |-> IF leaders_ok THEN slot_leaders[1].leaders ELSE cache.leaders,
             leader_tpu_map |-> IF cluster_ok
                                THEN extract_cluster_tpu_sockets(nodes[1].nodes)
                                ELSE cache.leader_tpu_map,
             slots_in_epoch |-> IF epoch_ok THEN epoch[1].slots_in_epoch
                                ELSE cache.slots_in_epoch,
             last_epoch_info_slot |-> IF epoch_ok THEN estimated_slot
                                      ELSE cache.last_epoch_info_slot],
         has_error |-> \/ (nodes # None /\ ~nodes[1].ok)
                       \/ (slot_leaders # None /\ ~slot_leaders[1].ok),
         cluster_refreshed |-> cluster_ok]

\* The requests maybe_fetch_cache_info makes, and the answers it can get:
\* any answer, or no error when requests do not fail.
Answers(results, failures) == {r \in results : failures \/ r.ok}

\* maybe_fetch_cache_info that asks for leaders only once the estimate has
\* reached the last cached slot.
CacheInfos_no_fanout_margin(cache, cluster_refresh_elapsed, slots, failures) ==
    LET estimated_slot == estimated_current_slot(slots).slot
        limit == fanout(cache.slots_in_epoch)
    IN  [maybe_cluster_nodes :
            IF cluster_refresh_elapsed <= FIVE_MINUTES
            THEN {Some(r) : r \in Answers(ClusterNodesResults, failures)} ELSE {None},
         maybe_epoch_info :
            IF estimated_slot >= saturating_sub(cache.last_epoch_info_slot,
                                                cache.slots_in_epoch)
            THEN {Some(r) : r \in Answers(EpochInfoResults, failures)} ELSE {None},
         maybe_slot_leaders :
            IF estimated_slot >= last_slot(cache)
            THEN {Some(r) : r \in Answers(SlotLeadersResults(estimated_slot, limit),
                                          failures)}
            ELSE {None}]

CacheInfos(cache, cluster_refresh_elapsed, slots, failures) ==
    LET estimated_slot == estimated_current_slot(slots).slot
        limit == fanout(cache.slots_in_epoch)
    IN  [maybe_cluster_nodes :
            IF cluster_refresh_elapsed <= FIVE_MINUTES
            THEN {Some(r) : r \in Answers(ClusterNodesResults, failures)} ELSE {None},
         maybe_epoch_info :
            IF estimated_slot >= saturating_sub(cache.last_epoch_info_slot,
                                                cache.slots_in_epoch)
            THEN {Some(r) : r \in Answers(EpochInfoResults, failures)} ELSE {None},
         maybe_slot_leaders :
            IF estimated_slot >= saturating_sub(last_slot(cache), MAX_FANOUT_SLOTS)
            THEN {Some(r) : r \in Answers(SlotLeadersResults(estimated_slot, limit),
                                          failures)}
            ELSE {None}]

(***************************************************************************)
(* NodeAddressService (src/src/node_address_service.rs): init, the task    *)
(* running run, and the calls of the operation that owns the service.      *)
(* The interval of the cluster refresh is not counted second by second:    *)
(* last_cluster_refresh is at most five minutes old until                  *)
(* ClusterRefreshPeriodPasses makes it older.                              *)
(***************************************************************************)
\* The slots the node reports: get_slot at init, slot updates later.
StartSlots == {0, 2 * FarSlot}

\* The slot updates of the subscription: the node completes the slot before
\* the later start slot, receives the first shred of the earlier one, or
\* reports something else.
SlotUpdates ==
    {[kind |-> "Completed", slot |-> 2 * FarSlot - 1],
     [kind |-> "FirstShredReceived", slot |-> 0],
     [kind |-> "Frozen", slot |-> 0]}

\* NodeAddressService::init, for the given answers of get_slot,
\* get_epoch_info and get_cluster_nodes and the given websocket urls (TRUE:
\* not empty).  Any failing request or connection makes init, and with it the
\* caller, return the error.
NodeAddressServiceInit(start_slots, epochs, cluster_nodes, urls) ==
    /\ pc = "run_nas_init"
    /\ \/ /\ pc' = "run_failed"
          /\ UNCHANGED nas_vars
       \/ \E start_slot \in start_slots, slots_in_epoch \in epochs,
             nodes \in cluster_nodes, url \in urls :
            LET limit == fanout(slots_in_epoch)
                leaders == [i \in 1..limit |-> LeaderAt(start_slot + i - 1)]
            IN
            /\ recent_slots' = new(start_slot)
            /\ leader_tpu_cache' =
                   <<LeaderTpuCache_new(start_slot, slots_in_epoch, leaders, nodes)>>
            /\ leaders_requested' = limit
            /\ leaders_from' = start_slot
            /\ notifications' = url
            /\ nas_pc' = "start"
            /\ pc' = "run_select"
            /\ UNCHANGED <<slot_call, last_cluster_refresh, sleep_ms,
                           cache_update_info, cluster_refreshed, tpu_call, teardown>>
    /\ UNCHANGED <<shepherd_vars, shutdown, last_hash, refresh_pc, loop_start, run_vars>>
    /\ UNCHANGED bench_vars

\* The head of 'main_loop that never looks at the token.
NasLoopHead_ignores_token == "sleep"

\* The head of 'main_loop: once the token is cancelled the task leaves the
\* loop, through (unsubscribe)().await when it has a subscription.
NasLoopHead ==
    IF shutdown THEN (IF notifications THEN "unsubscribe" ELSE "ended_ok")
    ELSE "sleep"

\* The task starts: slot_updates_subscribe() when there is a pubsub client,
\* whose error ends the task; then the first pass of the loop head.
NasSubscribe ==
    /\ nas_pc = "start"
    /\ \/ /\ notifications
          /\ nas_pc' = "ended_err"
          /\ UNCHANGED <<last_cluster_refresh, sleep_ms>>
       \/ /\ last_cluster_refresh' = 0
          /\ sleep_ms' = 1000
          /\ nas_pc' = NasLoopHead
    /\ UNCHANGED <<pc, shepherd_vars, shutdown, last_hash, refresh_pc, loop_start,
                   run_vars, recent_slots, slot_call, leader_tpu_cache, notifications,
                   cache_update_info, leaders_requested, leaders_from, teardown, cluster_refreshed, tpu_call>>
    /\ UNCHANGED bench_vars

\* sleep(sleep_ms) is over.
NasSleepOver ==
    /\ nas_pc = "sleep"
    /\ sleep_ms' = 1000
    /\ nas_pc' = IF notifications THEN "drain" ELSE "fetch"
    /\ UNCHANGED <<pc, shepherd_vars, shutdown, last_hash, refresh_pc, loop_start,
                   run_vars, recent_slots, slot_call, leader_tpu_cache, notifications,
                   last_cluster_refresh, cache_update_info, leaders_requested, leaders_from, teardown,
                   cluster_refreshed, tpu_call>>
    /\ UNCHANGED bench_vars

\* exit.cancelled() resolves during the sleep: continue 'main_loop, whose
\* head ends the task.
NasSleepCancelled ==
    /\ nas_pc = "sleep"
    /\ shutdown
    /\ nas_pc' = NasLoopHead
    /\ teardown' = <<"sleep_cancelled">>
    /\ UNCHANGED <<pc, shepherd_vars, shutdown, last_hash, refresh_pc, loop_start,
                   run_vars, recent_slots, slot_call, leader_tpu_cache, notifications,
                   last_cluster_refresh, sleep_ms, cache_update_info,
                   leaders_requested, leaders_from, cluster_refreshed, tpu_call>>
    /\ UNCHANGED bench_vars

\* (unsubscribe)().await returns; the notification stream is dropped and
\* pubsub_client.shutdown() is called.
NasUnsubscribe ==
    /\ nas_pc = "unsubscribe"
    /\ teardown' = teardown \o <<"unsubscribe", "drop">>
    /\ nas_pc' = "pubsub_shutdown"
    /\ UNCHANGED <<pc, shepherd_vars, shutdown, last_hash, refresh_pc, loop_start,
                   run_vars, recent_slots, slot_call, leader_tpu_cache, notifications,
                   last_cluster_refresh, sleep_ms, cache_update_info,
                   leaders_requested, leaders_from, cluster_refreshed, tpu_call>>
    /\ UNCHANGED bench_vars

\* pubsub_client.shutdown().await returns: an error is logged, the loop is
\* left and run returns Ok(()).
NasPubsubShutdown ==
    /\ nas_pc = "pubsub_shutdown"
    /\ \E ok \in BOOLEAN :
          teardown' = Append(teardown, IF ok THEN "shutdown" ELSE "shutdown_failed")
    /\ nas_pc' = "ended_ok"
    /\ UNCHANGED <<pc, shepherd_vars, shutdown, last_hash, refresh_pc, loop_start,
                   run_vars, recent_slots, slot_call, leader_tpu_cache, notifications,
                   last_cluster_refresh, sleep_ms, cache_update_info,
                   leaders_requested, leaders_from, cluster_refreshed, tpu_call>>
    /\ UNCHANGED bench_vars

\* A slot update recorded also between maybe_fetch_cache_info and update_all.
NasSlotUpdate_while_fetched ==
    /\ nas_pc \in {"drain", "update"}
    /\ Len(recent_slots) <= MaxSlotUpdates
    /\ \E update \in SlotUpdates :
        recent_slots' =
            IF update.kind = "Completed"
            THEN record_slot(recent_slots, update.slot + 1)
            ELSE IF update.kind = "FirstShredReceived"
            THEN record_slot(recent_slots, update.slot)
            ELSE recent_slots
    /\ UNCHANGED <<pc, shepherd_vars, shutdown, last_hash, refresh_pc, loop_start,
                   run_vars, nas_pc, slot_call, cache_vars>>
    /\ UNCHANGED bench_vars

\* One slot update is taken from the subscription.  The slots are far below
\* 2^64, where slot.saturating_add(1) is slot + 1.
NasSlotUpdate ==
    /\ nas_pc = "drain"
    /\ Len(recent_slots) <= MaxSlotUpdates
    /\ \E update \in SlotUpdates :
        recent_slots' =
            IF update.kind = "Completed"
            THEN record_slot(recent_slots, update.slot + 1)
            ELSE IF update.kind = "FirstShredReceived"
            THEN record_slot(recent_slots, update.slot)
            ELSE recent_slots
    /\ UNCHANGED <<pc, shepherd_vars, shutdown, last_hash, refresh_pc, loop_start,
                   run_vars, nas_pc, slot_call, cache_vars>>
    /\ UNCHANGED bench_vars

\* No update arrives within 10 ms, or the stream has ended.
NasDrainOver ==
    /\ nas_pc = "drain"
    /\ nas_pc' = "fetch"
    /\ UNCHANGED <<pc, shepherd_vars, shutdown, last_hash, refresh_pc, loop_start,
                   run_vars, recent_slots, slot_call, cache_vars>>
    /\ UNCHANGED bench_vars

\* maybe_fetch_cache_info(..).await returns.
MaybeFetchCacheInfo(failures) ==
    /\ nas_pc = "fetch"
    /\ \E info \in CacheInfos(leader_tpu_cache[1], last_cluster_refresh, recent_slots,
                             failures) :
        /\ cache_update_info' = <<info>>
        /\ leaders_requested' = IF info.maybe_slot_leaders # None
                                THEN fanout(leader_tpu_cache[1].slots_in_epoch)
                                ELSE leaders_requested
        /\ leaders_from' = IF info.maybe_slot_leaders # None
                           THEN estimated_current_slot(recent_slots).slot
                           ELSE leaders_from
    /\ nas_pc' = "update"
    /\ UNCHANGED <<pc, shepherd_vars, shutdown, last_hash, refresh_pc, loop_start,
                   run_vars, recent_slots, slot_call, leader_tpu_cache, notifications,
                   last_cluster_refresh, sleep_ms, cluster_refreshed, tpu_call,
                   teardown>>
    /\ UNCHANGED bench_vars

\* The rest of the iteration: update_all when something was fetched, then
\* the loop head.
UpdateAll ==
    /\ nas_pc = "update"
    /\ LET info == cache_update_info[1]
           r == update_all(leader_tpu_cache[1],
                           estimated_current_slot(recent_slots).slot, info)
       IN
       IF has_some(info)
       THEN /\ leader_tpu_cache' = <<r.cache>>
            /\ sleep_ms' = IF r.has_error THEN 100 ELSE sleep_ms
            /\ last_cluster_refresh' = IF r.cluster_refreshed THEN 0
                                       ELSE last_cluster_refresh
            /\ cluster_refreshed' = (cluster_refreshed \/ r.cluster_refreshed)
       ELSE UNCHANGED <<leader_tpu_cache, sleep_ms, last_cluster_refresh,
                        cluster_refreshed>>
    /\ cache_update_info' = << >>
    /\ nas_pc' = NasLoopHead
    /\ UNCHANGED <<pc, shepherd_vars, shutdown, last_hash, refresh_pc, loop_start,
                   run_vars, recent_slots, slot_call, notifications, leaders_requested, leaders_from, teardown,
                   tpu_call>>
    /\ UNCHANGED bench_vars

\* Time passes: last_cluster_refresh is more than five minutes ago.
ClusterRefreshPeriodPasses ==
    /\ nas_pc \in {"sleep", "drain", "fetch", "update"}
    /\ last_cluster_refresh <= FIVE_MINUTES
    /\ last_cluster_refresh' = FIVE_MINUTES + 1
    /\ UNCHANGED <<pc, shepherd_vars, shutdown, last_hash, refresh_pc, loop_start,
                   run_vars, nas_pc, recent_slots, slot_call, leader_tpu_cache,
                   notifications, sleep_ms, cache_update_info, leaders_requested, leaders_from, teardown,
                   cluster_refreshed, tpu_call>>
    /\ UNCHANGED bench_vars

\* The vectors the operation passes as out.
OutVectors == {<< >>, <<"sB">>}

\* get_tpu_for_next_in_schedule, first half: the estimate is read.
GetTpuEstimate ==
    /\ pc = "run_select"
    /\ \E out \in OutVectors, fanout_slots \in 0..MaxFanoutSlots :
        tpu_call' = <<[stage |-> "estimated",
                       current_slot |-> estimated_current_slot(recent_slots).slot,
                       fanout_slots |-> fanout_slots,
                       given |-> out,
                       out |-> out]>>
    /\ UNCHANGED <<pc, shepherd_vars, shutdown, last_hash, refresh_pc, loop_start,
                   run_vars, nas_pc, recent_slots, slot_call, leader_tpu_cache,
                   notifications, last_cluster_refresh, sleep_ms, cache_update_info,
                   leaders_requested, leaders_from, teardown, cluster_refreshed>>
    /\ UNCHANGED bench_vars

\* get_tpu_for_next_in_schedule, second half: get_leader_sockets under the
\* read lock of the cache.
GetTpuLeaderSockets ==
    /\ pc = "run_select"
    /\ tpu_call # << >>
    /\ tpu_call[1].stage = "estimated"
    /\ tpu_call' = <<[tpu_call[1] EXCEPT
                        !.stage = "returned",
                        !.out = get_leader_sockets(leader_tpu_cache[1], tpu_call[1].given,
                                                   tpu_call[1].current_slot,
                                                   tpu_call[1].fanout_slots)]>>
    /\ UNCHANGED <<pc, shepherd_vars, shutdown, last_hash, refresh_pc, loop_start,
                   run_vars, nas_pc, recent_slots, slot_call, leader_tpu_cache,
                   notifications, last_cluster_refresh, sleep_ms, cache_update_info,
                   leaders_requested, leaders_from, teardown, cluster_refreshed>>
    /\ UNCHANGED bench_vars

\* The service with the operation that uses it, the blockhash cache aside.
LeaderInit ==
    /\ pc = "run_nas_init"
    /\ tx_builder_count = 0
    /\ retry_count = 0
    /\ execution_status = << >>
    /\ sending_txs = << >>
    /\ in_status_check = {}
    /\ status_task = [indices |-> << >>, signatures |-> << >>]
    /\ last_status_check = 0
    /\ succeeded_count = 0
    /\ failed_count = 0
    /\ shutdown = FALSE
    /\ last_hash \in Hashes
    /\ refresh_pc = "start"
    /\ loop_start = 0
    /\ attempts = << >>
    /\ last_signature = << >>
    /\ printed = << >>
    /\ RunIdle
    /\ BenchIdle
    /\ PollIdle
    /\ NasIdle

LeaderNext ==
    \/ NodeAddressServiceInit(StartSlots, EpochSlots, ClusterNodes, BOOLEAN)
    \/ NasSubscribe
    \/ NasSleepOver
    \/ NasSleepCancelled
    \/ NasUnsubscribe
    \/ NasPubsubShutdown
    \/ NasSlotUpdate
    \/ NasDrainOver
    \/ MaybeFetchCacheInfo(TRUE)
    \/ UpdateAll
    \/ ClusterRefreshPeriodPasses
    \/ CancelToken

LeaderSpec == LeaderInit /\ [][LeaderNext]_vars

\* The task of the service and the cancellation of its token, with requests
\* that are all answered.
CancelNext ==
    \/ NodeAddressServiceInit({0}, {32}, {FullNodes}, BOOLEAN)
    \/ NasSubscribe
    \/ NasSleepOver
    \/ NasSleepCancelled
    \/ NasUnsubscribe
    \/ NasPubsubShutdown
    \/ NasSlotUpdate
    \/ NasDrainOver
    \/ MaybeFetchCacheInfo(FALSE)
    \/ UpdateAll
    \/ CancelToken

\* The task of the service is scheduled, and each of its awaits returns: the
\* sleep ends, the subscription stays silent for 10 ms at some point, the
\* RPC and pubsub requests are answered or time out.
LeaderLiveSpec ==
    /\ LeaderInit
    /\ [][CancelNext]_vars
    /\ WF_vars(NasSubscribe)
    /\ WF_vars(NasSleepOver)
    /\ WF_vars(NasSleepCancelled)
    /\ WF_vars(NasDrainOver)
    /\ WF_vars(MaybeFetchCacheInfo(FALSE))
    /\ WF_vars(UpdateAll)
    /\ WF_vars(NasUnsubscribe)
    /\ WF_vars(NasPubsubShutdown)

\* The operation calling get_tpu_for_next_in_schedule while the task of the
\* service runs: subscribed to slot updates, its requests answered.
TpuNext ==
    \/ NodeAddressServiceInit(StartSlots, {32}, ClusterNodes, {TRUE})
    \/ NasSubscribe
    \/ NasSleepOver
    \/ NasSlotUpdate
    \/ NasDrainOver
    \/ MaybeFetchCacheInfo(FALSE)
    \/ UpdateAll
    \/ GetTpuEstimate
    \/ GetTpuLeaderSockets

TpuSpec == LeaderInit /\ [][TpuNext]_vars

(***************************************************************************)
(* with_node_address_service(..).run(op): the runner of                    *)
(* src/src/node_address_service/runner.rs.  Time advances by Tick, one     *)
(* tick of 100 ms at a time; a request takes any number of ticks.          *)
(***************************************************************************)
RunInit ==
    /\ pc = "run_init"
    /\ tx_builder_count = 0
    /\ retry_count = 0
    /\ execution_status = << >>
    /\ sending_txs = << >>
    /\ in_status_check = {}
    /\ status_task = [indices |-> << >>, signatures |-> << >>]
    /\ last_status_check = 0
    /\ succeeded_count = 0
    /\ failed_count = 0
    /\ shutdown = FALSE
    /\ last_hash = ZeroHash
    /\ refresh_pc = "start"
    /\ loop_start = 0
    /\ attempts = << >>
    /\ last_signature = << >>
    /\ printed = << >>
    /\ RunIdle
    /\ BenchIdle
    /\ PollIdle
    /\ NasIdle

\* blockhash_cache.init(&rpc_client): one round of its loop.
RunBlockhashCacheInit ==
    /\ pc = "run_init"
    /\ \E rpc_result \in BlockhashResults :
        /\ last_hash' = refresh(last_hash, rpc_result).last_hash
        /\ pc' = IF get(last_hash') # ZeroHash THEN "run_nas_init" ELSE pc
    /\ UNCHANGED <<shepherd_vars, shutdown, refresh_pc, loop_start, run_vars, nas_vars>>
    /\ UNCHANGED bench_vars

\* The operation completes and run goes straight to joining the service task.
OpCompleted_skips_refresh_await ==
    /\ pc = "run_select"
    /\ pc' = "run_await_handle"
    /\ shutdown' = TRUE
    /\ UNCHANGED <<shepherd_vars, last_hash, refresh_pc, loop_start, run_vars, nas_vars>>
    /\ UNCHANGED bench_vars

\* The first branch of the select!: op_task resolves; then shutdown.cancel().
OpCompleted ==
    /\ pc = "run_select"
    /\ pc' = "run_await_refresh"
    /\ shutdown' = TRUE
    /\ UNCHANGED <<shepherd_vars, last_hash, refresh_pc, loop_start, run_vars, nas_vars>>
    /\ UNCHANGED bench_vars

\* The refresh task is polled by the select! and by the await that follows it.
RunRefreshPolled == pc \in {"run_select", "run_await_refresh"}

\* Where run goes when the refresh task is at position p after a poll.
RunAfterRefreshPoll(p) ==
    IF p # "done" THEN pc
    ELSE IF pc = "run_select" THEN "panicked" ELSE "run_await_handle"

\* 100 ms pass.
Tick ==
    /\ RunRefreshPolled
    /\ refresh_pc \in {"refresh", "sleep"}
    /\ \/ loop_start < min_loop_duration
       \/ refresh_pc = "refresh" /\ attempt_age < MaxElapsed
       \/ since_refresh \in 0..(MaxElapsed - 1)
    /\ loop_start' = Min(min_loop_duration, loop_start + 1)
    /\ attempt_age' = IF refresh_pc = "refresh"
                      THEN Min(MaxElapsed, attempt_age + 1) ELSE attempt_age
    /\ since_refresh' = IF since_refresh < 0 THEN since_refresh
                        ELSE Min(MaxElapsed, since_refresh + 1)
    /\ UNCHANGED <<pc, shepherd_vars, shutdown, last_hash, refresh_pc, refresh_gap,
                   refresh_seen, nas_vars>>
    /\ UNCHANGED bench_vars

\* The first poll of the refresh task: the head of the while loop.
TimedRefreshLoopStart ==
    /\ RunRefreshPolled
    /\ refresh_pc = "start"
    /\ refresh_pc' = RefreshLoopHead.pc
    /\ loop_start' = RefreshLoopHead.loop_start
    /\ pc' = RunAfterRefreshPoll(refresh_pc')
    /\ UNCHANGED <<shepherd_vars, shutdown, last_hash, run_vars, nas_vars>>
    /\ UNCHANGED bench_vars

\* self.refresh(rpc_client) resolves in the inner loop.
TimedRefreshLoopRefresh ==
    /\ RunRefreshPolled
    /\ refresh_pc = "refresh"
    /\ \E rpc_result \in BlockhashResults :
        LET res == refresh(last_hash, rpc_result)
            loop_wait_time == Max(0, min_loop_duration - loop_start)
        IN
        /\ last_hash' = res.last_hash
        /\ refresh_pc' = AfterRefresh(res.ok)
        /\ loop_start' = IF res.ok /\ loop_wait_time = 0
                         THEN RefreshLoopHead.loop_start ELSE loop_start
        /\ attempt_age' = 0
        /\ since_refresh' = IF res.ok THEN attempt_age ELSE since_refresh
        /\ refresh_gap' = IF ~res.ok THEN refresh_gap
                          ELSE IF since_refresh < 0 THEN -1
                          ELSE IF since_refresh >= MaxElapsed THEN min_loop_duration
                          ELSE Min(min_loop_duration, since_refresh - attempt_age)
        /\ refresh_seen' = <<[before |-> last_hash, rpc |-> rpc_result,
                              ok |-> res.ok, after |-> res.last_hash,
                              cancelled |-> shutdown, next |-> refresh_pc']>>
    /\ pc' = RunAfterRefreshPoll(refresh_pc')
    /\ UNCHANGED <<shepherd_vars, shutdown, nas_vars>>
    /\ UNCHANGED bench_vars

\* sleep(loop_wait_time) is over.
TimedRefreshLoopSleepOver ==
    /\ RunRefreshPolled
    /\ refresh_pc = "sleep"
    /\ loop_start >= min_loop_duration
    /\ refresh_pc' = RefreshLoopHead.pc
    /\ loop_start' = RefreshLoopHead.loop_start
    /\ pc' = RunAfterRefreshPoll(refresh_pc')
    /\ UNCHANGED <<shepherd_vars, shutdown, last_hash, run_vars, nas_vars>>
    /\ UNCHANGED bench_vars

\* exit.cancelled() resolves, in either select! of run_refresh_loop.
TimedRefreshLoopCancelled ==
    /\ RunRefreshPolled
    /\ refresh_pc \in {"refresh", "sleep"}
    /\ shutdown
    /\ refresh_pc' = "done"
    /\ pc' = RunAfterRefreshPoll(refresh_pc')
    /\ UNCHANGED <<shepherd_vars, shutdown, last_hash, loop_start, run_vars, nas_vars>>
    /\ UNCHANGED bench_vars

\* node_address_service_handle.await returns the result of the task.
RunAwaitHandle ==
    /\ pc = "run_await_handle"
    /\ nas_pc \in {"ended_ok", "ended_err"}
    /\ pc' = IF nas_pc = "ended_ok" THEN "run_done" ELSE "run_failed"
    /\ UNCHANGED <<shepherd_vars, shutdown, last_hash, refresh_pc, loop_start,
                   run_vars, nas_vars>>
    /\ UNCHANGED bench_vars

RunNext ==
    \/ RunBlockhashCacheInit
    \/ NodeAddressServiceInit({0}, {32}, {FullNodes}, BOOLEAN)
    \/ OpCompleted
    \/ CancelToken
    \/ Tick
    \/ TimedRefreshLoopStart
    \/ TimedRefreshLoopRefresh
    \/ TimedRefreshLoopSleepOver
    \/ TimedRefreshLoopCancelled
    \/ NasSubscribe
    \/ NasSleepCancelled
    \/ NasUnsubscribe
    \/ NasPubsubShutdown
    \/ RunAwaitHandle

RunSpec == RunInit /\ [][RunNext]_vars

(***************************************************************************)
(* The price store benchmark (src/src/price_store/benchmark1.rs and        *)
(* src/src/price_store/benchmark1/price_publisher.rs): the operation that  *)
(* run() of benchmark1.rs hands to with_node_address_service(..).run().    *)
(* Durations are in ticks of 200 ms.  The futures of the publishers are    *)
(* polled by the first branch of the select! of the aggregator loop, so    *)
(* every step of a publisher is a step of that loop.  A future that can    *)
(* make a step makes it before the clock advances.                         *)
(***************************************************************************)
NumPublishers == 2
MaxFeeds == 3
MaxUpdatesPerTx == 2
MaxOvertime == 2

\* mpsc::channel(1000)
ChannelCapacity == 1000

\* const SEND_OVER_UDP: bool = false;
SEND_OVER_UDP == FALSE

\* --update-frequency 400ms and --duration 2s
BenchmarkArgs ==
    [price_feed_index_start |-> 1,
     price_feed_index_end |-> 2,
     price_updates_per_tx |-> 2,
     update_frequency |-> 2,
     duration |-> 10,
     publishers |-> NumPublishers]

\* Arguments that check_are_valid and the parser of price_updates_per_tx
\* accept, for one publisher that runs for one period.
PublishArgs ==
    {args \in [price_feed_index_start : 1..MaxFeeds,
               price_feed_index_end : 1..MaxFeeds,
               price_updates_per_tx : 1..MaxUpdatesPerTx,
               update_frequency : {1},
               duration : {2},
               publishers : {1}] :
        args.price_feed_index_start <= args.price_feed_index_end}

\* The vectors get_tpu_for_next_in_schedule fills for a publisher.
TargetNodes == {<< >>, <<"sA">>, <<"sA", "sB">>}

\* price_feed_indices.map(PriceSource::new).collect(), by feed index.
price_sources(args) ==
    [i \in 1..(args.price_feed_index_end + 1 - args.price_feed_index_start) |->
        args.price_feed_index_start + i - 1]

\* chunks_exact: the remainder that does not fill a chunk is left out.
RECURSIVE chunks_exact(_, _)
chunks_exact(prices, chunk_size) ==
    IF Len(prices) < chunk_size THEN << >>
    ELSE <<SubSeq(prices, 1, chunk_size)>>
         \o chunks_exact(SubSeq(prices, chunk_size + 1, Len(prices)), chunk_size)

\* slice::chunks
RECURSIVE chunks(_, _)
chunks(prices, chunk_size) ==
    IF prices = << >> THEN << >>
    ELSE IF Len(prices) <= chunk_size THEN <<prices>>
    ELSE <<SubSeq(prices, 1, chunk_size)>>
         \o chunks(SubSeq(prices, chunk_size + 1, Len(prices)), chunk_size)

\* The futures start_all_price_updates pushes for the chunks from the i-th
\* on: the RPC send, and with SEND_OVER_UDP one send_to per target node.
RECURSIVE price_update_futures(_, _, _)
price_update_futures(transactions, target_nodes, i) ==
    IF i > Len(transactions) THEN << >>
    ELSE <<[kind |-> "rpc", transaction |-> i]>>
         \o (IF ~SEND_OVER_UDP THEN << >>
             ELSE [n \in 1..Len(target_nodes) |->
                      [kind |-> "udp", transaction |-> i, node |-> target_nodes[n]]])
         \o price_update_futures(transactions, target_nodes, i + 1)

\* start_all_price_updates: the prices of the chunks, one transaction per
\* chunk, and the futures pushed to price_updates.
start_all_price_updates(sources, price_updates_per_tx, target_nodes) ==
    LET transactions == chunks(sources, price_updates_per_tx) IN
    [transactions |-> transactions,
     price_updates |-> price_update_futures(transactions, target_nodes, 1)]

\* RunStats::include
include(run_stats, result) ==
    IF result = "Success"
    THEN [run_stats EXCEPT !.successful_tx = @ + 1]
    ELSE [run_stats EXCEPT !.failed_tx = @ + 1]

PriceUpdateResults == {"Success", "Fail"}

\* The mpsc channel, which keeps a count per kind of result.
Queued(channel) == channel.success + channel.fail
Push(channel, result) ==
    IF result = "Success" THEN [channel EXCEPT !.success = @ + 1]
    ELSE [channel EXCEPT !.fail = @ + 1]
Pop(channel, result) ==
    IF result = "Success" THEN [channel EXCEPT !.success = @ - 1]
    ELSE [channel EXCEPT !.fail = @ - 1]
Holds(channel, result) ==
    IF result = "Success" THEN channel.success > 0 ELSE channel.fail > 0

Publishers == DOMAIN publishers

\* run_publisher before its first poll.
NewPublisher ==
    [pc |-> "start",
     iteration_elapsed |-> 0,       \* ticks since iteration_start_time
     iterations |-> 0,              \* iterations started
     iteration_gap |-> -1,          \* ticks between the last two iteration starts
     started_cancelled |-> FALSE,   \* the last iteration started with the token cancelled
     in_flight |-> 0,               \* pending_price_updates: futures not completed
     completed |-> [success |-> 0, fail |-> 0], \* completed, not yet taken by next()
     target_nodes |-> << >>,
     transactions |-> << >>,
     pushed |-> 0]                  \* futures pushed by the last start_all_price_updates

\* run() of benchmark1.rs up to the first poll of the operation, which the
\* runner starts after its own requests: later than benchmark_end_timer.
BenchStarts(args_set) ==
    /\ pc = "bench_select"
    /\ bench_args \in args_set
    /\ bench_now = 1
    /\ benchmark_end_timer = FALSE
    /\ publishers_shutdown = FALSE
    /\ publishers = [p \in 1..bench_args.publishers |-> NewPublisher]
    /\ update_results = [success |-> 0, fail |-> 0]
    /\ stats = [successful_tx |-> 0, failed_tx |-> 0]
    /\ results_sent = 0
    /\ stats_line = << >>
    /\ tx_builder_count = 0
    /\ retry_count = 0
    /\ execution_status = << >>
    /\ sending_txs = << >>
    /\ in_status_check = {}
    /\ status_task = [indices |-> << >>, signatures |-> << >>]
    /\ last_status_check = 0
    /\ succeeded_count = 0
    /\ failed_count = 0
    /\ shutdown = FALSE
    /\ last_hash = 1
    /\ refresh_pc = "start"
    /\ loop_start = 0
    /\ attempts = << >>
    /\ last_signature = << >>
    /\ printed = << >>
    /\ PollIdle
    /\ RunIdle
    /\ NasIdle

BenchInit == BenchStarts({BenchmarkArgs})

PublishInit == BenchStarts(PublishArgs)

\* Lines 89-111 of run_publisher: a new iteration of 'publishing_all.
StartIteration(p, targets) ==
    \E target_nodes \in targets :
        LET started == start_all_price_updates(price_sources(bench_args),
                                               bench_args.price_updates_per_tx,
                                               target_nodes)
            publisher == publishers[p]
        IN  publishers' =
                [publishers EXCEPT ![p] =
                    [publisher EXCEPT
                        !.pc = "updates",
                        !.iteration_elapsed = 0,
                        !.iterations = @ + 1,
                        !.iteration_gap = IF publisher.iterations = 0 THEN -1
                                          ELSE publisher.iteration_elapsed,
                        !.started_cancelled = publishers_shutdown,
                        !.in_flight = @ + Len(started.price_updates),
                        !.target_nodes = target_nodes,
                        !.transactions = started.transactions,
                        !.pushed = Len(started.price_updates)]]

\* No time is left in any iteration.
iteration_time_left_none(publisher) == 0

\* update_frequency.saturating_sub(iteration_start_time.elapsed())
iteration_time_left(publisher) ==
    Max(0, bench_args.update_frequency - publisher.iteration_elapsed)

\* The first poll of run_publisher.
PublisherStart(p, targets) ==
    /\ pc = "bench_select"
    /\ publishers[p].pc = "start"
    /\ StartIteration(p, targets)
    /\ UNCHANGED <<pc, shepherd_vars, shutdown, last_hash, refresh_pc, loop_start,
                   run_vars, nas_vars, bench_args, bench_now, benchmark_end_timer,
                   publishers_shutdown, update_results, stats, results_sent,
                   stats_line>>

\* A send of the publisher completes: the RPC answers.
SendCompletes(p, results) ==
    /\ pc = "bench_select"
    /\ publishers[p].pc \in {"updates", "sleep"}
    /\ publishers[p].in_flight > 0
    /\ \E result \in results :
        publishers' = [publishers EXCEPT
                          ![p].in_flight = @ - 1,
                          ![p].completed = Push(@, result)]
    /\ UNCHANGED <<pc, shepherd_vars, shutdown, last_hash, refresh_pc, loop_start,
                   run_vars, nas_vars, bench_args, bench_now, benchmark_end_timer,
                   publishers_shutdown, update_results, stats, results_sent,
                   stats_line>>

\* pending_price_updates.next() gives Some(send_result), which is sent to
\* the channel.  The receiver lives as long as the publishers, so the send
\* does not fail; it waits while the channel is full.
PublisherReportsResult(p) ==
    /\ pc = "bench_select"
    /\ publishers[p].pc = "updates"
    /\ Queued(update_results) < ChannelCapacity
    /\ \E result \in PriceUpdateResults :
        /\ Holds(publishers[p].completed, result)
        /\ publishers' = [publishers EXCEPT ![p].completed = Pop(@, result)]
        /\ update_results' = Push(update_results, result)
    /\ results_sent' = results_sent + 1
    /\ UNCHANGED <<pc, shepherd_vars, shutdown, last_hash, refresh_pc, loop_start,
                   run_vars, nas_vars, bench_args, bench_now, benchmark_end_timer,
                   publishers_shutdown, stats, stats_line>>

\* pending_price_updates.next() gives None: all updates of the iteration
\* are done.  Without time left the next iteration starts at once.
PublisherUpdatesDone(p, targets) ==
    /\ pc = "bench_select"
    /\ publishers[p].pc = "updates"
    /\ publishers[p].in_flight = 0
    /\ Queued(publishers[p].completed) = 0
    /\ IF iteration_time_left(publishers[p]) # 0
       THEN publishers' = [publishers EXCEPT ![p].pc = "sleep"]
       ELSE StartIteration(p, targets)
    /\ UNCHANGED <<pc, shepherd_vars, shutdown, last_hash, refresh_pc, loop_start,
                   run_vars, nas_vars, bench_args, bench_now, benchmark_end_timer,
                   publishers_shutdown, update_results, stats, results_sent,
                   stats_line>>

\* sleep(iteration_time_left) is over.
PublisherSleepOver(p, targets) ==
    /\ pc = "bench_select"
    /\ publishers[p].pc = "sleep"
    /\ publishers[p].iteration_elapsed >= bench_args.update_frequency
    /\ StartIteration(p, targets)
    /\ UNCHANGED <<pc, shepherd_vars, shutdown, last_hash, refresh_pc, loop_start,
                   run_vars, nas_vars, bench_args, bench_now, benchmark_end_timer,
                   publishers_shutdown, update_results, stats, results_sent,
                   stats_line>>

\* exit.cancelled() resolves, in either select! of run_publisher:
\* break 'publishing_all, and run_publisher returns Ok(()).
PublisherCancelled(p) ==
    /\ pc = "bench_select"
    /\ publishers[p].pc \in {"updates", "sleep"}
    /\ publishers_shutdown
    /\ publishers' = [publishers EXCEPT ![p].pc = "returned"]
    /\ UNCHANGED <<pc, shepherd_vars, shutdown, last_hash, refresh_pc, loop_start,
                   run_vars, nas_vars, bench_args, bench_now, benchmark_end_timer,
                   publishers_shutdown, update_results, stats, results_sent,
                   stats_line>>

\* A publisher can make a step when it is polled.
PublisherReady(p) ==
    LET publisher == publishers[p] IN
    \/ publisher.pc = "start"
    \/ /\ publisher.pc = "updates"
       /\ \/ Queued(publisher.completed) > 0 /\ Queued(update_results) < ChannelCapacity
          \/ publisher.in_flight = 0 /\ Queued(publisher.completed) = 0
    \/ /\ publisher.pc = "sleep"
       /\ publisher.iteration_elapsed >= bench_args.update_frequency
    \/ /\ publisher.pc \in {"updates", "sleep"}
       /\ publishers_shutdown

\* The first branch of the select! of the aggregator: publishers.next()
\* gives None, all publishers are done; then publishers_shutdown.cancel().
AllPublishersDone ==
    /\ pc = "bench_select"
    /\ \A p \in Publishers : publishers[p].pc = "returned"
    /\ pc' = "bench_joining"
    /\ publishers_shutdown' = TRUE
    /\ UNCHANGED <<shepherd_vars, shutdown, last_hash, refresh_pc, loop_start,
                   run_vars, nas_vars, bench_args, bench_now, benchmark_end_timer,
                   publishers, update_results, stats, results_sent, stats_line>>

\* The second branch: update_results_rx.recv() gives a result.
ReceiveUpdateResult ==
    /\ pc = "bench_select"
    /\ \E result \in PriceUpdateResults :
        /\ Holds(update_results, result)
        /\ update_results' = Pop(update_results, result)
        /\ stats' = include(stats, result)
    /\ UNCHANGED <<pc, shepherd_vars, shutdown, last_hash, refresh_pc, loop_start,
                   run_vars, nas_vars, bench_args, bench_now, benchmark_end_timer,
                   publishers_shutdown, publishers, results_sent, stats_line>>

\* The third branch: stats_update_interval ticks, whatever its period, and
\* print_stats prints a line that differs from the last one.
StatsUpdate ==
    /\ pc = "bench_select"
    /\ stats_line # <<stats>>
    /\ stats_line' = <<stats>>
    /\ UNCHANGED <<pc, shepherd_vars, shutdown, last_hash, refresh_pc, loop_start,
                   run_vars, nas_vars, bench_args, bench_now, benchmark_end_timer,
                   publishers_shutdown, publishers, update_results, stats,
                   results_sent>>

\* The timer of the benchmark has reached its deadline and was not taken.
BenchmarkEndDue == bench_now >= bench_args.duration /\ ~benchmark_end_timer

\* The fourth branch: benchmark_end_timer resolves.
BenchmarkEnds ==
    /\ pc = "bench_select"
    /\ BenchmarkEndDue
    /\ benchmark_end_timer' = TRUE
    /\ publishers_shutdown' = TRUE
    /\ UNCHANGED <<pc, shepherd_vars, shutdown, last_hash, refresh_pc, loop_start,
                   run_vars, nas_vars, bench_args, bench_now, publishers,
                   update_results, stats, results_sent, stats_line>>

\* The fifth branch: SIGINT or SIGTERM arrives.
StopSignal ==
    /\ pc = "bench_select"
    /\ ~publishers_shutdown
    /\ publishers_shutdown' = TRUE
    /\ UNCHANGED <<pc, shepherd_vars, shutdown, last_hash, refresh_pc, loop_start,
                   run_vars, nas_vars, bench_args, bench_now, benchmark_end_timer,
                   publishers, update_results, stats, results_sent, stats_line>>

\* The runner joins its tasks and returns: print_stats(&stats) after Ok, the
\* error of the runner otherwise.
BenchRunReturns ==
    /\ pc = "bench_joining"
    /\ \/ /\ pc' = "bench_done"
          /\ stats_line' = <<stats>>
       \/ /\ pc' = "bench_failed"
          /\ UNCHANGED stats_line
    /\ UNCHANGED <<shepherd_vars, shutdown, last_hash, refresh_pc, loop_start,
                   run_vars, nas_vars, bench_args, bench_now, benchmark_end_timer,
                   publishers_shutdown, publishers, update_results, stats,
                   results_sent>>

\* 200 ms pass while every future of the loop is pending.
BenchTick ==
    /\ pc = "bench_select"
    /\ bench_now < bench_args.duration + MaxOvertime
    /\ ~BenchmarkEndDue
    /\ Queued(update_results) = 0
    /\ \A p \in Publishers : ~PublisherReady(p)
    /\ \E p \in Publishers : publishers[p].pc # "returned"
    /\ bench_now' = bench_now + 1
    /\ publishers' =
           [p \in Publishers |->
               IF publishers[p].pc \in {"updates", "sleep"}
               THEN [publishers[p] EXCEPT
                        !.iteration_elapsed = Min(bench_args.update_frequency, @ + 1)]
               ELSE publishers[p]]
    /\ UNCHANGED <<pc, shepherd_vars, shutdown, last_hash, refresh_pc, loop_start,
                   run_vars, nas_vars, bench_args, benchmark_end_timer,
                   publishers_shutdown, update_results, stats, results_sent,
                   stats_line>>

\* Two publishers with --update-frequency 400ms and --duration 2s, every
\* send answered with success; the default --stats-update-interval of 60 s
\* is not reached.
BenchNext ==
    \/ \E p \in Publishers : PublisherStart(p, {<<"sA">>})
    \/ \E p \in Publishers : SendCompletes(p, {"Success"})
    \/ \E p \in Publishers : PublisherReportsResult(p)
    \/ \E p \in Publishers : PublisherUpdatesDone(p, {<<"sA">>})
    \/ \E p \in Publishers : PublisherSleepOver(p, {<<"sA">>})
    \/ \E p \in Publishers : PublisherCancelled(p)
    \/ AllPublishersDone
    \/ ReceiveUpdateResult
    \/ BenchmarkEnds
    \/ StopSignal
    \/ BenchRunReturns
    \/ BenchTick

BenchSpec == BenchInit /\ [][BenchNext]_vars

\* One publisher, for every accepted range of feeds and chunk size, every
\* vector of target nodes and every result of a send.
PublishNext ==
    \/ \E p \in Publishers : PublisherStart(p, TargetNodes)
    \/ \E p \in Publishers : SendCompletes(p, PriceUpdateResults)
    \/ \E p \in Publishers : PublisherReportsResult(p)
    \/ \E p \in Publishers : PublisherUpdatesDone(p, TargetNodes)
    \/ \E p \in Publishers : PublisherSleepOver(p, TargetNodes)
    \/ \E p \in Publishers : PublisherCancelled(p)
    \/ AllPublishersDone
    \/ ReceiveUpdateResult
    \/ StatsUpdate
    \/ BenchmarkEnds
    \/ StopSignal
    \/ BenchRunReturns
    \/ BenchTick

PublishSpec == PublishInit /\ [][PublishNext]_vars

(***************************************************************************)
(* The status task of run_impl with time counted in ticks of 100 ms.  The  *)
(* future made by start_status_check sleeps until the instant              *)
(* last_status_check, returns at once when it was given no indices, and    *)
(* sends its getSignatureStatuses request otherwise.  A sleep ends at the  *)
(* instant it was set for, and the select! of run_impl takes a branch that *)
(* is ready before more time passes.                                       *)
(***************************************************************************)
\* The future has slept and has yet to go on.
StatusSleepOver == status_pc = "sleep" /\ last_status_check >= 0

\* One tick passes.
PollTick ==
    /\ InSelect
    /\ ~StatusSleepOver
    /\ last_status_check < MaxElapsed
    /\ last_status_check' = last_status_check + 1
    /\ rpc_clock' = IF rpc_clock < 0 THEN rpc_clock ELSE Min(MaxElapsed, rpc_clock + 1)
    /\ UNCHANGED <<pc, tx_builder_count, retry_count, execution_status, sending_txs,
                   in_status_check, status_task, succeeded_count, failed_count,
                   shutdown, last_hash, refresh_pc, loop_start, attempts,
                   last_signature, printed, status_pc, status_rpcs, rpc_gap>>
    /\ UNCHANGED <<run_vars, nas_vars>>
    /\ UNCHANGED bench_vars

\* The future goes on after its sleep, with indices to ask about:
\* rpc_client.send(RpcRequest::GetSignatureStatuses, ..).
StatusRpcStarts ==
    /\ InSelect
    /\ StatusSleepOver
    /\ status_task.indices # << >>
    /\ status_pc' = "rpc"
    /\ status_rpcs' = status_rpcs + 1
    /\ rpc_gap' = rpc_clock
    /\ rpc_clock' = 0
    /\ UNCHANGED <<pc, tx_builder_count, retry_count, execution_status, sending_txs,
                   in_status_check, status_task, last_status_check, succeeded_count,
                   failed_count, shutdown, last_hash, refresh_pc, loop_start,
                   attempts, last_signature, printed>>
    /\ UNCHANGED <<run_vars, nas_vars>>
    /\ UNCHANGED bench_vars

\* The second branch of the select!: the future resolves to Ok, either with the
\* answer to its request or with no results when it had no indices.
PollStatusCompleted ==
    /\ status_pc = "rpc" \/ (StatusSleepOver /\ status_task.indices = << >>)
    /\ \E status_results \in StatusResults(status_task.indices) :
            StatusTaskOk(status_results)
    /\ status_pc' = "sleep"
    /\ status_rpcs' = IF status_pc = "rpc" THEN status_rpcs - 1 ELSE status_rpcs
    /\ UNCHANGED <<rpc_clock, rpc_gap>>

\* The second branch of the select!: the request of the future fails.
PollStatusRequestFailed ==
    /\ status_pc = "rpc"
    /\ StatusTaskErr
    /\ status_pc' = "sleep"
    /\ status_rpcs' = status_rpcs - 1
    /\ UNCHANGED <<rpc_clock, rpc_gap>>

PollNext ==
    \/ BlockhashCacheInit
    \/ SendCompleted
    \/ SendDelayOver
    \/ AbsentDeadlinePassed
    \/ PollTick
    \/ StatusRpcStarts
    \/ PollStatusCompleted
    \/ PollStatusRequestFailed

PollSpec == Init /\ [][PollNext]_vars

(***************************************************************************)
(* Properties                                                              *)
(***************************************************************************)
Started == pc # "init"
LoopExited == pc \in {"await_refresh", "report", "done"}
IsTerminal(status) == status.tag \in {"Success", "Failed"}
AllTerminal == \A i \in Idx : IsTerminal(execution_status[i])
Drained == sending_txs = << >> /\ in_status_check = {}

\* C1: for every index, the number of send futures created by send_one_tx is
\* at most retry_count + 1, whatever the sends and the status polls answer.
C1_SendAttemptsBounded ==
    Started => \A i \in Idx : attempts[i] <= retry_count + 1

\* An index has used up its retries: retry_count + 1 sends, the last one failed.
C1_Witness ==
    /\ Started
    /\ retry_count = MaxRetry
    /\ \E i \in Idx : /\ attempts[i] = retry_count + 1
                      /\ execution_status[i].tag = "Failed"

\* C2: once the loop has exited, succeeded_count + failed_count is the number
\* of transaction builders.
C2_CountsAddUp ==
    LoopExited => succeeded_count + failed_count = tx_builder_count

\* C3: the loop is left only with sending_txs and in_status_check both empty,
\* and whenever both are empty every entry of execution_status is Success or
\* Failed.
C3_ExitWhenDrainedAndTerminal ==
    /\ LoopExited => Drained
    /\ (Started /\ Drained) => AllTerminal

\* The loop has exited with one transaction succeeded and one failed.
C3_Witness ==
    /\ LoopExited
    /\ \E i, j \in Idx : /\ execution_status[i].tag = "Success"
                         /\ execution_status[j].tag = "Failed"

\* C4: after run_impl is done, the printed lines are the reasons of the
\* transactions whose status is Failed, one line each.
C4_FailuresPrinted ==
    pc = "done" => printed = FailedErrors(StatusList(execution_status))

\* C5: run_impl does not panic when the token is cancelled.
C5_NoPanicWhenCancelled ==
    shutdown => pc # "panicked"

\* C6: sending_txs never holds two send futures of the same index.
C6_OneSendFuturePerIndex ==
    \A i \in Idx : CountFor(sending_txs, i) <= 1

\* A retry of an index is in sending_txs while the other index is being sent too.
C6_Witness ==
    /\ pc = "loop"
    /\ Len(sending_txs) = 2
    /\ \E i \in Idx : attempts[i] = 2 /\ CountFor(sending_txs, i) = 1

\* C7: every index in in_status_check, and every index the pending status task
\* asks about, is WaitingConfirmation with the signature its latest successful
\* send returned, and that is the signature the status task asks about.
C7_PollsLatestSignature ==
    Started =>
        /\ \A i \in in_status_check :
            /\ execution_status[i].tag = "WaitingConfirmation"
            /\ last_signature[i] = Some(execution_status[i].signature)
        /\ \A k \in DOMAIN status_task.indices :
            LET i == status_task.indices[k] IN
            /\ i \in in_status_check
            /\ execution_status[i].tag = "WaitingConfirmation"
            /\ status_task.signatures[k] = execution_status[i].signature

\* The status task asks about the second send of an index, which was signed
\* over another blockhash than the transaction the other index is sending.
C7_Witness ==
    /\ pc = "loop"
    /\ \E k \in DOMAIN status_task.indices :
        /\ attempts[status_task.indices[k]] = 2
        /\ \E n \in DOMAIN sending_txs :
            status_task.signatures[k][2] # sending_txs[n].tx.blockhash

\* C8: when every send future resolves and status polls keep returning result
\* lists, every transaction ends as Success or Failed and the loop exits.
C8_AllEndAndLoopExits ==
    <>(LoopExited /\ AllTerminal)

\* Some transaction is WaitingConfirmation and has been reported Pending.
ReportedPending ==
    \E i \in DOMAIN execution_status :
        /\ execution_status[i].tag = "WaitingConfirmation"
        /\ execution_status[i].confirmations # None

\* C8, amended: the same, unless some transaction is reported Pending for ever.
C8_AllEndUnlessPendingForever ==
    <>(LoopExited /\ AllTerminal) \/ <>[]ReportedPending

\* run_impl is done, every transaction is counted, and one of them needed
\* all its retries.
C8_Witness ==
    /\ pc = "done"
    /\ retry_count = MaxRetry
    /\ succeeded_count + failed_count = tx_builder_count
    /\ \E i \in Idx : attempts[i] = retry_count + 1

\* C9: with retry_count = 0 every index is sent exactly once: no step creates
\* a second send future, and no step takes a status back to Sending.
C9_NoRetrySingleAttempt ==
    [][(retry_count = 0 /\ pc = "loop" /\ pc' = "loop") =>
        \A i \in Idx :
            /\ attempts[i] = 1 /\ attempts'[i] = 1
            /\ execution_status[i].tag # "Sending" =>
                    /\ execution_status'[i].tag # "Sending"
                    /\ CountFor(sending_txs', i) = 0
            /\ (execution_status[i].tag = "Sending"
                    /\ execution_status'[i] # execution_status[i]) =>
                    /\ CountFor(sending_txs', i) = 0
                    /\ execution_status'[i].tag \in {"WaitingConfirmation", "Failed"}
            /\ (execution_status[i].tag = "WaitingConfirmation"
                    /\ i \notin in_status_check') =>
                    IsTerminal(execution_status'[i])]_vars

\* With retry_count = 0, one transaction has failed on an Absent result after
\* the deadline and the other on a failed send.
C9_Witness ==
    /\ retry_count = 0
    /\ Started
    /\ \E i, j \in Idx : /\ execution_status[i] = Failed(AbsentError)
                         /\ execution_status[j].tag = "Failed"
                         /\ execution_status[j].error \in RpcErrors

\* C10: once BlockhashCache::init has returned, get() is never the zero hash,
\* and so no transaction is built over the zero hash.
C10_CacheNonZeroAfterInit ==
    Started =>
        /\ get(last_hash) # ZeroHash
        /\ \A k \in DOMAIN sending_txs : sending_txs[k].tx.blockhash # ZeroHash

\* The refresh loop has replaced the blockhash a pending transaction was built over.
C10_Witness ==
    /\ pc = "loop"
    /\ refresh_pc = "sleep"
    /\ \E k \in DOMAIN sending_txs : sending_txs[k].tx.blockhash # get(last_hash)

\* C11: in run_refresh_loop any two consecutive successful refreshes are at
\* least min_period apart (their requests are issued at least
\* min_loop_duration ticks apart), also when the first of them succeeded only
\* after failed attempts of the same loop iteration.
C11_SuccessfulRefreshesApart ==
    refresh_gap = -1 \/ refresh_gap >= min_loop_duration

\* C12: run_refresh_loop returns only after its token has been cancelled (a
\* failed request alone never makes it return), and once the token is
\* cancelled its next step, in the refresh select!, in the retry loop or in
\* the period sleep, is to return: it enters no further period sleep.
C12_ReturnsOnlyOnCancellation ==
    [][/\ (refresh_pc # "done" /\ refresh_pc' = "done") => shutdown
       /\ (shutdown /\ refresh_pc' # refresh_pc) => refresh_pc' = "done"
       /\ (shutdown /\ refresh_seen' # refresh_seen) => refresh_pc' = "done"]_vars

\* Cancelled while a request that followed a failed one was pending: the loop
\* has returned.
C12_Witness ==
    /\ refresh_pc = "done"
    /\ shutdown
    /\ refresh_seen # << >>
    /\ ~refresh_seen[1].ok
    /\ ~refresh_seen[1].cancelled

\* C13: when the RPC returns the blockhash that is already stored, refresh
\* returns Ok and leaves the stored value unchanged, and the refresh loop goes
\* on with its next iteration (the period sleep, or the next request when the
\* period is over; it returns only if the token is cancelled); when the RPC
\* fails, refresh returns an error and leaves the stored value unchanged.
C13_RefreshSameHashOrError ==
    refresh_seen # << >> =>
        LET r == refresh_seen[1] IN
        /\ (r.rpc.ok /\ r.rpc.blockhash = r.before) =>
              /\ r.ok
              /\ r.after = r.before
              /\ r.next \in {"sleep", "refresh"} \/ (r.cancelled /\ r.next = "done")
        /\ ~r.rpc.ok => (~r.ok /\ r.after = r.before)

\* The loop got the stored blockhash again and went to its period sleep.
C13_Witness ==
    /\ refresh_seen # << >>
    /\ refresh_seen[1].rpc.ok
    /\ refresh_seen[1].rpc.blockhash = refresh_seen[1].before
    /\ refresh_seen[1].next = "sleep"
    /\ last_hash = refresh_seen[1].before

\* C14: after construction and after any sequence of record_slot calls
\* RecentSlots holds between 1 and 12 entries; a slot recorded into a window
\* of 12 evicts the oldest entry and no other, a slot recorded into a shorter
\* window evicts nothing.
C14_RecentSlotsBoundedFifo ==
    /\ [](Len(recent_slots) \in 1..12)
    /\ [][(/\ slot_call' # << >>
           /\ slot_call'[1].op = "record_slot"
           /\ (slot_call' # slot_call \/ recent_slots' # recent_slots)) =>
              IF Len(recent_slots) = 12
              THEN /\ slot_call'[1].evicted = <<Head(recent_slots)>>
                   /\ recent_slots' = Append(Tail(recent_slots), slot_call'[1].slot)
              ELSE /\ slot_call'[1].evicted = << >>
                   /\ recent_slots' = Append(recent_slots, slot_call'[1].slot)]_vars

\* A 13th slot was recorded: the window is full and an entry other than the
\* new one was evicted.
C14_Witness ==
    /\ slot_call # << >>
    /\ slot_call[1].op = "record_slot"
    /\ Len(recent_slots) = 12
    /\ slot_call[1].evicted # << >>
    /\ slot_call[1].evicted[1] # slot_call[1].slot
    /\ recent_slots[12] = slot_call[1].slot

Range(seq) == {seq[i] : i \in DOMAIN seq}

\* The entry at index k (from 0) of the ascending order of seq.
KthSmallest(seq, k) ==
    CHOOSE v \in Range(seq) :
        /\ Cardinality({i \in DOMAIN seq : seq[i] < v}) <= k
        /\ k < Cardinality({i \in DOMAIN seq : seq[i] <= v})

Ceiling(seq) ==
    KthSmallest(seq, (Len(seq) - 1) \div 2)
        + ((Len(seq) - 1) - (Len(seq) - 1) \div 2) + 48

\* C15: for every content of RecentSlots (1 to 12 entries)
\* estimated_current_slot returns, without panicking, the greatest recorded
\* slot that is <= sorted[(len-1)/2] + (len-1 - (len-1)/2) + 48: a slot that
\* was recorded; for the scenario [100,150,...,200000,...,138] it returns 150.
C15_EstimateGreatestWithinCeiling ==
    /\ pc # "panicked"
    /\ (slot_call # << >> /\ slot_call[1].op = "estimated_current_slot") =>
          /\ slot_call[1].slot \in Range(recent_slots)
          /\ slot_call[1].slot <= Ceiling(recent_slots)
          /\ \A i \in DOMAIN recent_slots :
                recent_slots[i] <= Ceiling(recent_slots)
                    => recent_slots[i] <= slot_call[1].slot
          /\ recent_slots = Scenario => slot_call[1].slot = 150

\* The estimate of the scenario has been taken.
C15_Witness ==
    /\ recent_slots = Scenario
    /\ slot_call # << >>
    /\ slot_call[1].op = "estimated_current_slot"
    /\ slot_call[1].slot = 150

\* The slot has a leader in the cached schedule, whose TPU address is known.
HasTpu(cache, slot) ==
    /\ slot >= cache.first_slot
    /\ slot - cache.first_slot < Len(cache.leaders)
    /\ cache.leaders[slot - cache.first_slot + 1] \in DOMAIN cache.leader_tpu_map

TpuOf(cache, slot) == cache.leader_tpu_map[cache.leaders[slot - cache.first_slot + 1]]

\* The slots of [current, current + fanout_slots) that add a socket to out:
\* the first slot of each socket that is not in the given vector.
AddingSlots(cache, given, current, fanout_slots) ==
    {slot \in current..(current + fanout_slots - 1) :
        /\ HasTpu(cache, slot)
        /\ TpuOf(cache, slot) \notin Range(given)
        /\ \A earlier \in current..(slot - 1) :
              HasTpu(cache, earlier) => TpuOf(cache, earlier) # TpuOf(cache, slot)}

\* out is the given vector followed by the sockets of the adding slots, in
\* slot order.
IsScheduleOut(out, cache, given, current, fanout_slots) ==
    LET adding == AddingSlots(cache, given, current, fanout_slots) IN
    /\ Len(out) = Len(given) + Cardinality(adding)
    /\ SubSeq(out, 1, Len(given)) = given
    /\ \A slot \in adding :
          out[Len(given) + Cardinality({s \in adding : s <= slot})] = TpuOf(cache, slot)

\* get_leader_sockets returns in this step.
TpuReturns ==
    /\ tpu_call # << >>
    /\ tpu_call[1].stage = "estimated"
    /\ tpu_call' # << >>
    /\ tpu_call'[1].stage = "returned"

ScheduleInstalled ==
    \/ /\ leader_tpu_cache = << >>
       /\ leader_tpu_cache' # << >>
    \/ /\ nas_pc = "update"
       /\ nas_pc' # "update"
       /\ cache_update_info[1].maybe_slot_leaders # None
       /\ cache_update_info[1].maybe_slot_leaders[1].ok

\* C17: whenever a leader schedule is installed in the leader cache (at init
\* and at every successful leaders refresh), first_slot is at most the
\* estimated current slot at that moment.
C17_FirstSlotAtMostEstimate ==
    [][ScheduleInstalled =>
          leader_tpu_cache'[1].first_slot <= estimated_current_slot(recent_slots').slot]_vars

\* A refresh has installed a schedule that starts at another slot than the
\* one init fetched.
C17_Witness ==
    /\ nas_pc \in {"sleep", "ended_ok"}
    /\ leader_tpu_cache # << >>
    /\ leader_tpu_cache[1].first_slot # recent_slots[1]
    /\ leader_tpu_cache[1].first_slot = estimated_current_slot(recent_slots).slot

\* C18: whenever a leader schedule is installed in the leader cache, the
\* number of leaders requested for it equals min(200, slots_in_epoch) for the
\* slots_in_epoch the cache holds once that update is complete, also when the
\* same update installs a new epoch info.
C18_LeadersRequestedForCachedEpoch ==
    [][ScheduleInstalled =>
          leaders_requested' = Min(2 * MAX_FANOUT_SLOTS,
                                   leader_tpu_cache'[1].slots_in_epoch)]_vars

\* maybe_fetch_cache_info returns in this step, after update_all has
\* refreshed the cluster contacts at least once.
FetchAfterClusterRefresh ==
    /\ nas_pc = "fetch"
    /\ nas_pc' = "update"
    /\ cluster_refreshed

\* C19: the background loop requests the cluster contacts at most once every
\* 5 minutes: after a successful cluster-contacts refresh no further request
\* is issued until 5 minutes have elapsed, and a request is issued again once
\* they have.
C19_ClusterNodesEveryFiveMinutes ==
    [][FetchAfterClusterRefresh =>
          (cache_update_info'[1].maybe_cluster_nodes # None
              <=> last_cluster_refresh > FIVE_MINUTES)]_vars

\* A background task of run has terminated while the operation is running.
BackgroundTaskEndedBeforeOp ==
    /\ pc = "run_select"
    /\ \/ refresh_pc = "done"
       \/ nas_pc \in {"ended_ok", "ended_err"}

\* C20: in with_node_address_service(..).run(op), if the blockhash refresh
\* loop or the NodeAddressService background task terminates before op has
\* completed, run panics instead of letting op continue: run leaves its
\* select! only by panicking.
C20_PanicsWhenBackgroundTaskEnds ==
    [][(BackgroundTaskEndedBeforeOp /\ pc' # pc) => pc' = "panicked"]_vars

\* The positions of run at which op has started.
OpStarted == pc \in {"run_select", "run_await_refresh", "run_await_handle", "run_done"}

\* C21: in with_node_address_service(..).run(op), op starts only after the
\* blockhash cache holds a non-zero value; when op completes the token is
\* cancelled, then the refresh loop is awaited to completion, then the
\* service task is joined; run returns Ok(op result) if the service task
\* returned Ok and an error if the service task failed.
C21_RunOrder ==
    /\ [](OpStarted => get(last_hash) # ZeroHash)
    /\ [](pc \in {"run_await_refresh", "run_await_handle", "run_done"} => shutdown)
    /\ [](pc \in {"run_await_handle", "run_done"} => refresh_pc = "done")
    /\ [][pc = "run_select" /\ pc' \notin {pc, "panicked"} =>
             pc' = "run_await_refresh"]_vars
    /\ [][pc = "run_await_refresh" /\ pc' # pc =>
             pc' = "run_await_handle" /\ refresh_pc' = "done"]_vars
    /\ [][pc = "run_await_handle" /\ pc' # pc =>
             /\ nas_pc \in {"ended_ok", "ended_err"}
             /\ pc' = (IF nas_pc = "ended_ok" THEN "run_done" ELSE "run_failed")]_vars

\* run has returned Ok(op result): all background tasks have been joined.
C21_Witness ==
    /\ pc = "run_done"
    /\ nas_pc = "ended_ok"
    /\ refresh_pc = "done"
    /\ shutdown

\* The entries of the chunks, in the order of the chunks.
RECURSIVE Flatten(_)
Flatten(seqs) == IF seqs = << >> THEN << >> ELSE Head(seqs) \o Flatten(Tail(seqs))

\* The feed indices of the benchmark, in ascending order.
FeedIndices ==
    [i \in 1..(bench_args.price_feed_index_end + 1 - bench_args.price_feed_index_start) |->
        bench_args.price_feed_index_start + i - 1]

\* C22: in every publisher iteration, the generated prices are split into
\* consecutive chunks of at most price_updates_per_tx entries, one
\* transaction per chunk, and every feed index in
\* [price_feed_index_start, price_feed_index_end] appears in exactly one
\* chunk of that iteration.
C22_ChunksCoverFeeds ==
    \A p \in Publishers :
        publishers[p].iterations > 0 =>
            LET transactions == publishers[p].transactions IN
            /\ \A i \in 1..Len(transactions) :
                  Len(transactions[i]) \in 1..bench_args.price_updates_per_tx
            /\ Flatten(transactions) = FeedIndices

\* An iteration whose last chunk is shorter than the one before it.
C22_Witness ==
    \E p \in Publishers :
        /\ publishers[p].iterations > 0
        /\ Len(publishers[p].transactions) = 2
        /\ Len(publishers[p].transactions[2]) < Len(publishers[p].transactions[1])

\* C23: in every publisher iteration, for each chunk transaction the
\* publisher starts one RPC send and one UDP send per target TPU address,
\* so the number of pending completions started in an iteration with c
\* chunks and k target addresses is c * (1 + k).
C23_PendingPerChunkAndTarget ==
    \A p \in Publishers :
        publishers[p].iterations > 0 =>
            publishers[p].pushed =
                Len(publishers[p].transactions) * (1 + Len(publishers[p].target_nodes))

\* C24: once the benchmark duration has elapsed, or SIGINT/SIGTERM has
\* arrived, or the publishers' cancellation token has fired, every
\* publisher task stops without starting another iteration: no iteration
\* after the first of a publisher starts with the token cancelled.
C24_NoIterationAfterShutdown ==
    \A p \in Publishers :
        publishers[p].started_cancelled => publishers[p].iterations = 1

C26_FinalStatsCountEveryResult ==
    pc = "bench_done" =>
        stats_line[1].successful_tx + stats_line[1].failed_tx = results_sent

\* A send for index i has failed at RPC level in this step: the status was
\* Sending, and it is neither left alone nor taken to WaitingConfirmation.
SendFailedStep(i) ==
    /\ pc = "loop" /\ pc' = "loop"
    /\ execution_status[i].tag = "Sending"
    /\ execution_status'[i] # execution_status[i]
    /\ execution_status'[i].tag # "WaitingConfirmation"

\* The send futures of index i among the futures fs.
FuturesFor(fs, i) == {fs[k] : k \in {n \in DOMAIN fs : fs[n].idx = i}}

\* C27: when a send for index i fails at RPC level with retries left, the
\* status stays Sending with one retry less and exactly one new send for i is
\* queued, which sleeps rpc_failure_retry_delay first; with no retries left the
\* status becomes Failed with the RPC error and no send for i is queued.
C27_SendFailureRetryPolicy ==
    [][\A i \in Idx : SendFailedStep(i) =>
        IF execution_status[i].retry_count > 0
        THEN /\ execution_status'[i] = Sending(execution_status[i].retry_count - 1)
             /\ attempts'[i] = attempts[i] + 1
             /\ CountFor(sending_txs', i) = 1
             /\ \A f \in FuturesFor(sending_txs', i) :
                    f.delay = rpc_failure_retry_delay
        ELSE /\ \E e \in RpcErrors : execution_status'[i] = Failed(e)
             /\ attempts'[i] = attempts[i]
             /\ CountFor(sending_txs', i) = 0]_vars

\* One index waits for its delayed re-send after a failed send, another has
\* failed on a send with no retries left.
C27_Witness ==
    /\ pc = "loop"
    /\ \E i, j \in Idx :
        /\ execution_status[i] = Sending(retry_count - 1)
        /\ \E f \in FuturesFor(sending_txs, i) : f.delay = rpc_failure_retry_delay
        /\ execution_status[j].tag = "Failed"
        /\ execution_status[j].error \in RpcErrors
        /\ attempts[j] = retry_count + 1

\* The indices a poll's results report with the given tag.
Reported(status_results, tag) ==
    {status_results[k].idx :
        k \in {n \in DOMAIN status_results : status_results[n].tag = tag}}

\* The indices of a poll's results that end as Failed in this step.
FailedInStep(status_results) ==
    {status_results[k].idx :
        k \in {n \in DOMAIN status_results :
                    execution_status'[status_results[n].idx].tag = "Failed"}}

\* C28: when the results of a status poll report index i as Absent, then:
\* before MAX_ABSENT_SLOTS slots have passed since the send succeeded, the
\* status of i and its place in in_status_check are unchanged; after that,
\* with retries left the status becomes Sending with one retry less, i leaves
\* in_status_check and one send for i is queued, which sleeps
\* status_failure_retry_delay first; with no retries left the status becomes
\* Failed with the message that names 5 slots, i leaves in_status_check and
\* failed_count counts it.
C28_AbsentPolicy ==
    [][\A status_results \in StatusResults(status_task.indices) :
        StatusCompletedWith(status_results) =>
          \A i \in Reported(status_results, "Absent") :
            /\ pc' = "loop"
            /\ i \in in_status_check
            /\ IF execution_status[i].wait_start < AbsentDeadline
               THEN /\ execution_status'[i] = execution_status[i]
                    /\ i \in in_status_check'
                    /\ attempts'[i] = attempts[i]
                    /\ CountFor(sending_txs', i) = 0
               ELSE IF execution_status[i].retry_count > 0
               THEN /\ execution_status'[i] =
                            Sending(execution_status[i].retry_count - 1)
                    /\ i \notin in_status_check'
                    /\ attempts'[i] = attempts[i] + 1
                    /\ CountFor(sending_txs', i) = 1
                    /\ \A f \in FuturesFor(sending_txs', i) :
                            f.delay = status_failure_retry_delay
               ELSE /\ execution_status'[i] = Failed(AbsentError)
                    /\ AbsentError =
                            "Transaction not present in the chain even after 5 slots"
                    /\ i \notin in_status_check'
                    /\ attempts'[i] = attempts[i]
                    /\ CountFor(sending_txs', i) = 0
                    /\ failed_count' =
                            failed_count + Cardinality(FailedInStep(status_results))
                    /\ failed_count' > failed_count]_vars

\* Both outcomes after the deadline have happened: one index waits for its
\* delayed re-send with its last retry spent, another has failed as absent.
C28_Witness ==
    /\ pc = "loop"
    /\ retry_count = MaxRetry
    /\ failed_count > 0
    /\ \E i, j \in Idx :
        /\ execution_status[i] = Sending(retry_count - 1)
        /\ \E f \in FuturesFor(sending_txs, i) : f.delay = status_failure_retry_delay
        /\ execution_status[j] = Failed(AbsentError)

\* C29: when the results of a status poll report index i as Fail with an
\* on-chain error, the retry policy of an Absent result past its deadline
\* applies: with retries left the status becomes Sending with one retry less,
\* i leaves in_status_check and one send for i is queued, which sleeps
\* status_failure_retry_delay first; with no retries left the status becomes
\* Failed with that error, i leaves in_status_check and failed_count counts it.
C29_FailPolicy ==
    [][\A status_results \in StatusResults(status_task.indices) :
        StatusCompletedWith(status_results) =>
          \A k \in DOMAIN status_results :
            status_results[k].tag = "Fail" =>
              LET i == status_results[k].idx IN
              /\ pc' = "loop"
              /\ i \in in_status_check
              /\ i \notin in_status_check'
              /\ IF execution_status[i].retry_count > 0
                 THEN /\ execution_status'[i] =
                              Sending(execution_status[i].retry_count - 1)
                      /\ attempts'[i] = attempts[i] + 1
                      /\ CountFor(sending_txs', i) = 1
                      /\ \A f \in FuturesFor(sending_txs', i) :
                              f.delay = status_failure_retry_delay
                      /\ execution_status'[i] =
                              status_absent([execution_status[i] EXCEPT
                                                !.wait_start = AbsentDeadline]).self
                 ELSE /\ execution_status'[i] = Failed(status_results[k].error)
                      /\ attempts'[i] = attempts[i]
                      /\ CountFor(sending_txs', i) = 0
                      /\ failed_count' =
                              failed_count + Cardinality(FailedInStep(status_results))
                      /\ failed_count' > failed_count]_vars

\* Both outcomes have happened: one index waits for its delayed re-send with
\* its last retry spent, another has failed with the on-chain error.
C29_Witness ==
    /\ pc = "loop"
    /\ retry_count = MaxRetry
    /\ failed_count > 0
    /\ \E i, j \in Idx :
        /\ execution_status[i] = Sending(retry_count - 1)
        /\ \E f \in FuturesFor(sending_txs, i) : f.delay = status_failure_retry_delay
        /\ execution_status[j].tag = "Failed"
        /\ execution_status[j].error \in TransactionErrors

\* A step of run_impl that makes a new status task: the instant
\* last_status_check is moved on.
StatusTaskScheduled == last_status_check' < last_status_check

TxsFor(fs, i) == {f.tx : f \in FuturesFor(fs, i)}

\* C31: every send attempt for index i, the first and each retry, carries the
\* transaction builder i makes from the blockhash the cache holds in the step
\* that queues the attempt; the transaction is fixed then, and neither the
\* retry delay nor a later refresh of the cache changes it.
C31_BuiltWhenQueued ==
    [][\A i \in DOMAIN attempts' :
        IF i \notin DOMAIN attempts \/ attempts'[i] # attempts[i]
        THEN /\ TxsFor(sending_txs', i) = {builder(i, last_hash')}
             /\ i \in DOMAIN attempts =>
                    /\ last_hash' = last_hash
                    /\ \A f \in FuturesFor(sending_txs', i) : f.delay > 0
        ELSE TxsFor(sending_txs', i) \subseteq TxsFor(sending_txs, i)]_vars

\* A retry still sleeps its delay and the cache has been refreshed since it
\* was queued: its transaction carries the older blockhash.
C31_Witness ==
    /\ pc = "loop"
    /\ \E k \in DOMAIN sending_txs :
        /\ sending_txs[k].delay > 0
        /\ attempts[sending_txs[k].idx] = 2
        /\ sending_txs[k].tx.blockhash # last_hash

\* C36: once run_impl has made its collections, every index is in exactly one
\* of three situations: Sending with exactly one send future and not in
\* in_status_check; WaitingConfirmation, in in_status_check and with no send
\* future; Success or Failed, in neither collection.
C36_OneSituationPerIndex ==
    Started =>
        \A i \in Idx :
            \/ /\ execution_status[i].tag = "Sending"
               /\ CountFor(sending_txs, i) = 1
               /\ i \notin in_status_check
            \/ /\ execution_status[i].tag = "WaitingConfirmation"
               /\ CountFor(sending_txs, i) = 0
               /\ i \in in_status_check
            \/ /\ IsTerminal(execution_status[i])
               /\ CountFor(sending_txs, i) = 0
               /\ i \notin in_status_check

\* The three situations at once would need three indices; here one index
\* waits for confirmation of its second send while the other has ended.
C36_Witness ==
    /\ pc = "loop"
    /\ \E i, j \in Idx :
        /\ execution_status[i].tag = "WaitingConfirmation"
        /\ attempts[i] = 2
        /\ i \in in_status_check
        /\ IsTerminal(execution_status[j])

\* C37: while the token is not cancelled run_impl never panics: every send
\* future belongs to an index that is Sending, and every index the pending
\* status task asks about is WaitingConfirmation, also when sends that
\* completed after the task was made have entered more indices into
\* in_status_check.
C37_NoPanicUntilCancelled ==
    /\ ~shutdown => pc # "panicked"
    /\ Started =>
        /\ \A k \in DOMAIN sending_txs :
                execution_status[sending_txs[k].idx].tag = "Sending"
        /\ \A k \in DOMAIN status_task.indices :
                execution_status[status_task.indices[k]].tag = "WaitingConfirmation"

\* The pending status task asks about one index; the send of the other index
\* has completed since, and has entered it into in_status_check.
C37_Witness ==
    /\ pc = "loop"
    /\ ~shutdown
    /\ Len(status_task.indices) = 1
    /\ Cardinality(in_status_check) = 2

\* The status carries a retry counter.
HasRetryCount(status) == status.tag \in {"Sending", "WaitingConfirmation"}

\* C38: for every index, Success and Failed are never left; the retry counter
\* of Sending and WaitingConfirmation never grows: it is kept when a send
\* succeeds and while the index waits for confirmation, Pending results
\* included, and it goes down by exactly one with each retry.
C38_TerminalAbsorbingRetriesDecrease ==
    [][(Started /\ Started') =>
        \A i \in Idx :
            LET before == execution_status[i]
                after == execution_status'[i]
                retried == attempts'[i] # attempts[i]
            IN
            /\ IsTerminal(before) => after = before /\ ~retried
            /\ (HasRetryCount(before) /\ HasRetryCount(after)) =>
                    /\ retried => /\ after = Sending(before.retry_count - 1)
                                  /\ attempts'[i] = attempts[i] + 1
                    /\ ~retried => after.retry_count = before.retry_count
            /\ after.tag = "Sending" => (retried \/ after = before)
            /\ HasRetryCount(after) => /\ HasRetryCount(before)
                                      /\ after.retry_count >= 0
                                      /\ after.retry_count <= before.retry_count]_vars

\* An index has spent its retry and has been reported Pending since, while
\* the other index has ended.
C38_Witness ==
    /\ pc = "loop"
    /\ retry_count = MaxRetry
    /\ \E i, j \in Idx :
        /\ execution_status[i].tag = "WaitingConfirmation"
        /\ execution_status[i].retry_count = retry_count - 1
        /\ execution_status[i].confirmations # None
        /\ attempts[i] = 2
        /\ IsTerminal(execution_status[j])

\* maybe_fetch_cache_info returns in this step.
FetchReturns == nas_pc = "fetch" /\ nas_pc' = "update"

\* C32: in an iteration of the background loop the slot-leaders request is
\* issued exactly when the estimated current slot is at least
\* last_cached_slot - MAX_FANOUT_SLOTS, the subtraction saturating at 0, where
\* last_cached_slot = first_slot + number of cached leaders - 1; the request
\* asks for the leaders from the estimated current slot on.
C32_LeadersRequestedNearEnd ==
    [][FetchReturns =>
        LET cache == leader_tpu_cache[1]
            estimate == estimated_current_slot(recent_slots).slot
            last_cached_slot == cache.first_slot + Len(cache.leaders) - 1
            threshold == IF last_cached_slot > MAX_FANOUT_SLOTS
                         THEN last_cached_slot - MAX_FANOUT_SLOTS ELSE 0
            answer == cache_update_info'[1].maybe_slot_leaders
        IN
        /\ answer # None <=> estimate >= threshold
        /\ answer # None =>
                /\ leaders_from' = estimate
                /\ answer[1].ok =>
                        answer[1].leaders =
                            [k \in 1..leaders_requested' |-> LeaderAt(estimate + k - 1)]
        /\ answer = None =>
                /\ leaders_from' = leaders_from
                /\ leaders_requested' = leaders_requested]_vars

\* An iteration has skipped the request, the estimate being more than
\* MAX_FANOUT_SLOTS short of the end of a schedule that an earlier iteration
\* had asked for from a later slot.
C32_Witness ==
    /\ nas_pc = "update"
    /\ cache_update_info[1].maybe_slot_leaders = None
    /\ leaders_from = 2 * FarSlot
    /\ leader_tpu_cache[1].first_slot = leaders_from
    /\ estimated_current_slot(recent_slots).slot < leaders_from

\* update_all runs in this step, with something fetched.
UpdateAllRuns ==
    /\ nas_pc = "update"
    /\ nas_pc' # "update"
    /\ has_some(cache_update_info[1])

\* The result is there and is Ok.
IsOk(maybe_result) == maybe_result # None /\ maybe_result[1].ok

\* The contact entries of a get_cluster_nodes answer that give a pubkey and a
\* TPU address.
UsableContacts(nodes) ==
    {nodes[k] : k \in {n \in DOMAIN nodes :
                            nodes[n].pubkey # None /\ nodes[n].tpu # None}}

\* C33: update_all applies its three results independently.  A successful
\* result replaces its own fields of the cache as a whole: the TPU map holds
\* the contacts of the answer and nothing else, the schedule is the answered
\* one.  A failed or absent result leaves its own fields as they were, and
\* neither reverts nor blocks what the other results update.
C33_UpdateAllIndependent ==
    [][UpdateAllRuns =>
        LET info == cache_update_info[1]
            before == leader_tpu_cache[1]
            after == leader_tpu_cache'[1]
        IN
        /\ IF IsOk(info.maybe_cluster_nodes)
           THEN LET contacts == UsableContacts(info.maybe_cluster_nodes[1].nodes) IN
                /\ DOMAIN after.leader_tpu_map = {c.pubkey[1] : c \in contacts}
                /\ \A c \in contacts : after.leader_tpu_map[c.pubkey[1]] = c.tpu[1]
           ELSE after.leader_tpu_map = before.leader_tpu_map
        /\ IF IsOk(info.maybe_epoch_info)
           THEN after.slots_in_epoch = info.maybe_epoch_info[1].slots_in_epoch
           ELSE /\ after.slots_in_epoch = before.slots_in_epoch
                /\ after.last_epoch_info_slot = before.last_epoch_info_slot
        /\ IF IsOk(info.maybe_slot_leaders)
           THEN after.leaders = info.maybe_slot_leaders[1].leaders
           ELSE /\ after.leaders = before.leaders
                /\ after.first_slot = before.first_slot]_vars

\* After an update with a failed request the cache holds fields of different
\* iterations: a TPU map that has lost an entry to a later answer, and an
\* epoch info taken at another slot than the schedule.
C33_Witness ==
    /\ nas_pc = "sleep"
    /\ sleep_ms = 100
    /\ DOMAIN leader_tpu_cache[1].leader_tpu_map = {"A"}
    /\ leader_tpu_cache[1].last_epoch_info_slot # leader_tpu_cache[1].first_slot

\* update_all installs a leader list in this step.
UpdateAllInstallsLeaders ==
    /\ UpdateAllRuns
    /\ IsOk(cache_update_info[1].maybe_slot_leaders)

\* C39: whenever update_all installs a new leader list, the first_slot it
\* stores is the slot the list was requested for, so that the k-th leader of
\* the list (counted from 0) is the leader of slot first_slot + k; and while a
\* fetched list waits for update_all, the estimated current slot is still the
\* one the request was made with.
C39_FirstSlotIsRequestedSlot ==
    /\ [](nas_pc = "update" /\ cache_update_info[1].maybe_slot_leaders # None
             => estimated_current_slot(recent_slots).slot = leaders_from)
    /\ [][UpdateAllInstallsLeaders =>
            LET after == leader_tpu_cache'[1] IN
            /\ after.first_slot = leaders_from
            /\ \A k \in 0..(Len(after.leaders) - 1) :
                    after.leaders[k + 1] = LeaderAt(after.first_slot + k)]_vars

\* A list requested for a slot other than the one the cache started at (the
\* slot of its epoch info) has been installed, after slot updates that moved
\* the estimate.
C39_Witness ==
    /\ nas_pc = "sleep"
    /\ Len(recent_slots) >= 2
    /\ leader_tpu_cache # << >>
    /\ leader_tpu_cache[1].first_slot = leaders_from
    /\ leaders_from = 2 * FarSlot
    /\ leader_tpu_cache[1].last_epoch_info_slot = 0

\* The request was issued and its result is an Err.
IsErr(maybe_result) == maybe_result # None /\ ~maybe_result[1].ok

\* An iteration of the loop ends in this step and the next one begins with
\* its sleep.
IterationEnds == nas_pc = "update" /\ nas_pc' = "sleep"

\* C34: after an iteration of the loop in which any of the issued requests
\* (cluster nodes, epoch info, slot leaders) failed, the next iteration
\* sleeps 100 ms; after an iteration in which none failed it sleeps 1000 ms.
C34_SleepAfterIteration ==
    [][IterationEnds =>
        LET info == cache_update_info[1] IN
        sleep_ms' = IF \/ IsErr(info.maybe_cluster_nodes)
                       \/ IsErr(info.maybe_epoch_info)
                       \/ IsErr(info.maybe_slot_leaders)
                    THEN 100 ELSE 1000]_vars

\* The task of the service has returned.
NasStopped == nas_pc \in {"ended_ok", "ended_err"}

\* What the task has done to its pubsub connection, in order.
PubsubTeardown == SelectSeq(teardown, LAMBDA op : op # "sleep_cancelled")

\* C35: when the token is cancelled the task of the service eventually
\* stops, also when the cancellation comes during its sleep.  With a pubsub
\* client it has then unsubscribed, dropped the notification stream and shut
\* the pubsub client down, in this order, and it returns Ok also when the
\* shutdown of the pubsub client failed.
C35_StopsOnCancellation ==
    /\ (shutdown /\ nas_pc # "none") ~> NasStopped
    /\ (shutdown /\ nas_pc = "sleep") ~> NasStopped
    /\ [](nas_pc = "ended_ok" /\ notifications =>
             PubsubTeardown \in {<<"unsubscribe", "drop", "shutdown">>,
                                 <<"unsubscribe", "drop", "shutdown_failed">>})
    /\ [][teardown' # teardown /\ teardown' # <<"sleep_cancelled">> =>
             \E op \in {"shutdown", "shutdown_failed"} :
                 \/ PubsubTeardown' = <<"unsubscribe", "drop">>
                 \/ /\ PubsubTeardown = <<"unsubscribe", "drop">>
                    /\ PubsubTeardown' = Append(PubsubTeardown, op)
                    /\ nas_pc' = "ended_ok"]_vars

\* The task was cancelled during its sleep and has returned Ok after a
\* failed shutdown of the pubsub client.
C35_Witness ==
    /\ nas_pc = "ended_ok"
    /\ teardown = <<"sleep_cancelled", "unsubscribe", "drop", "shutdown_failed">>

\* C40: for every sequence of recorded slots over the whole u64 range, the
\* slot after a Completed(u64::MAX) included, estimated_current_slot
\* computes its ceiling without overflow and finds a slot to return: it
\* never panics.
C40_EstimateNeverOverflows ==
    \A n \in DOMAIN slot_call :
        slot_call[n].op = "estimated_current_slot" =>
            ~slot_call[n].overflow /\ ~slot_call[n].panic

====
